---- MODULE Spec2Model ----
(***************************************************************************)
(* The summary parser of the meeting-analysis front end: the line-scanning *)
(* MarkdownRenderer (src/unnamed/part_001, lines 8-114).  A document is a  *)
(* sequence of lines, a line is a sequence of characters, and the parser   *)
(* is the for-loop over the lines with its cursor variables.  The header   *)
(* extraction of the split-based MarkdownRenderer                          *)
(* (src/src/components/MarkdownRenderer.tsx, lines 12-29) reads the same   *)
(* document as one string.                                                 *)
(***************************************************************************)
EXTENDS Naturals, Integers, Sequences, FiniteSets

(* ---------------------------------------------------------------------- *)
(* Bounds                                                                 *)
(* ---------------------------------------------------------------------- *)

\* Longest document, in lines, that the specifications draw.
MaxLines == 5

(* ---------------------------------------------------------------------- *)
(* Strings: sequences of one-character strings                            *)
(* ---------------------------------------------------------------------- *)

\* U+2014 EM DASH, written as a single character of a line.
EmDash == "EMDASH"

\* The characters above U+00FF and the invisible ones other than space,
\* \t, \n, \r and \f are written as their escape, a single character of
\* a line.

\* LineTerminator of ECMAScript: what '.' does not match and what ^ of the
\* m flag follows.
LineTerminators == {"\n", "\r", "\\u2028", "\\u2029"}

\* Characters that trim and \s remove: WhiteSpace and LineTerminator of
\* ECMAScript.
WhiteSpace ==
  {" ", "\t", "\f", "\\u000b", "\\u00a0", "\\ufeff", "\\u1680", "\\u2000",
   "\\u2001", "\\u2002", "\\u2003", "\\u2004", "\\u2005", "\\u2006", "\\u2007",
   "\\u2008", "\\u2009", "\\u200a", "\\u202f", "\\u205f", "\\u3000"}
    \cup LineTerminators

Digits == {"0", "1", "2", "3", "4", "5", "6", "7", "8", "9"}

MinOf(S) == CHOOSE m \in S : \A n \in S : m <= n

MaxOf(S) == CHOOSE m \in S : \A n \in S : n <= m

\* String.prototype.trim
trim(s) ==
  LET keep == {k \in 1..Len(s) : s[k] \notin WhiteSpace}
  IN  IF keep = {} THEN <<>> ELSE SubSeq(s, MinOf(keep), MaxOf(keep))

\* String.prototype.startsWith
startsWith(s, p) == Len(s) >= Len(p) /\ SubSeq(s, 1, Len(p)) = p

\* Positions (1-based) at which p occurs in s.
Occurrences(s, p) ==
  {k \in 1..(Len(s) + 1) : k + Len(p) - 1 <= Len(s) /\ SubSeq(s, k, k + Len(p) - 1) = p}

\* String.prototype.includes
includes(s, p) == Occurrences(s, p) # {}

\* String.prototype.replace with a string pattern: the first occurrence only.
replace(s, p, r) ==
  IF ~includes(s, p) THEN s
  ELSE LET k == MinOf(Occurrences(s, p))
       IN  SubSeq(s, 1, k - 1) \o r \o SubSeq(s, k + Len(p), Len(s))

\* String.prototype.substring(n)
substring(s, n) == SubSeq(s, n + 1, Len(s))

\* s without its leading white space (the \s* of a pattern).
SkipSpace(s) ==
  LET keep == {k \in 1..Len(s) : s[k] \notin WhiteSpace}
  IN  IF keep = {} THEN <<>> ELSE SubSeq(s, MinOf(keep), Len(s))

\* s.replace(/.*key\s*/, ''): the match starts at the start of the first
\* line of s that has key ('.' stays within a line), the greedy .* runs to
\* the last occurrence of key in that line, \s* takes the white space
\* after it, line terminators included; the match is removed.
stripThrough(s, key) ==
  IF ~includes(s, key) THEN s
  ELSE LET first  == MinOf(Occurrences(s, key))
           before == {h \in 1..(first - 1) : s[h] \in LineTerminators}
           after  == {h \in first..Len(s) : s[h] \in LineTerminators}
           start  == IF before = {} THEN 1 ELSE MaxOf(before) + 1
           stop   == IF after = {} THEN Len(s) + 1 ELSE MinOf(after)
           k      == MaxOf({h \in Occurrences(s, key) : h < stop})
       IN  SubSeq(s, 1, start - 1) \o SkipSpace(SubSeq(s, k + Len(key), Len(s)))

\* Length of the match of /^## \d+\./ at the start of s, 0 when none.
TopicHeaderMatch(s) ==
  IF ~startsWith(s, <<"#", "#", " ">>) THEN 0
  ELSE LET nondigit == {k \in 4..Len(s) : s[k] \notin Digits}
       IN  IF nondigit = {} THEN 0
           ELSE LET k == MinOf(nondigit)
                IN  IF k > 4 /\ s[k] = "." THEN k ELSE 0

(* ---------------------------------------------------------------------- *)
(* Literals of the parser                                                 *)
(* ---------------------------------------------------------------------- *)

EmptyString == <<>>
NotSpecified == <<"N", "o", "t", " ", "s", "p", "e", "c", "i", "f", "i", "e", "d">>
DateHeader == <<"#", " ", "C", "o", "m", "m", "u", "n", "i", "t", "y", " ", "B", "o", "a", "r", "d", " ", "M", "e", "e", "t", "i", "n", "g", " ", EmDash>>
OverviewMarker == <<"#", "#", " ", "M", "e", "e", "t", "i", "n", "g", " ", "O", "v", "e", "r", "v", "i", "e", "w">>
OverallSentimentKey == <<"*", "*", "O", "v", "e", "r", "a", "l", "l", " ", "S", "e", "n", "t", "i", "m", "e", "n", "t", ":", "*", "*">>
AttendanceKey == <<"*", "*", "A", "t", "t", "e", "n", "d", "a", "n", "c", "e", ":", "*", "*">>
SpeakersKey == <<"*", "*", "S", "p", "e", "a", "k", "e", "r", "s", ":", "*", "*">>
SentimentKey == <<"*", "*", "S", "e", "n", "t", "i", "m", "e", "n", "t", ":", "*", "*">>
BoldMark == <<"*", "*">>
SummaryMarker == <<"#", "#", "#", " ", "S", "u", "m", "m", "a", "r", "y">>
DecisionsMarker == <<"#", "#", "#", " ", "D", "e", "c", "i", "s", "i", "o", "n", "s">>
ActionItemsMarker == <<"#", "#", "#", " ", "A", "c", "t", "i", "o", "n", " ", "I", "t", "e", "m", "s">>
BulletMark == <<"-", " ">>
OwnerKey == <<"O", "w", "n", "e", "r", ":">>
DueKey == <<"D", "u", "e", ":">>

\* currentSection before the first topic header.
NULL == [null |-> TRUE]

(* ---------------------------------------------------------------------- *)
(* State                                                                  *)
(* ---------------------------------------------------------------------- *)

VARIABLES
  lines,              \* markdown.split('\n')
  i,                  \* loop index, 1-based here
  date, overviewText, sentiment, attendance,
  sections,           \* the parsed topics
  currentSection,     \* the open topic, or NULL
  currentSubsection,  \* '', 'summary', 'decisions' or 'actionItems'
  inOverview,
  sectionCounter,
  pc,                 \* "scan" inside the loop, "done" after the final flush
  headerInfo,         \* date, overview, sentiment and attendance of the
                      \* split-based renderer; NULL before it has run
  parsedSections,     \* the sections of the split-based renderer, as the
                      \* field 'rendered' of a record; NULL before it has run
  analysis,           \* the analysis record a document is generated from,
                      \* NULL for a document that came as Markdown
  title,              \* extractCBNumber: its argument
  xpc,                \* extractCBNumber: "patterns", "number", "names",
                      \* "returned"; "idle" when it is not called
  xi,                 \* extractCBNumber: index into patterns or cbNames
  cbNumber,           \* extractCBNumber: the value returned, NULL before
  file, youtubeUrl, isProcessing, processingMode, backendStatus, currentView,
  dragActive, selectedCB,
                      \* App: the useState cells of the same names
  manualCB,           \* App of part_003: the board chosen for a new video
  steps,              \* App of part_000: the statuses of the pipeline steps
  requests,           \* App: the processing requests awaiting their response
  alertMessage,       \* App: the text that the last step gave to alert(), ""
                      \* when it did not call it
  meetings, loading, error, lastFetch,
                      \* MeetingList: the useState cells of the same names
  fetches,            \* MeetingList: the calls of fetchMeetings awaiting
                      \* their response, each with the cbNumber of its
                      \* closure and whether its 'meetings' is non-empty
  intervalSees,       \* MeetingList: whether 'meetings' is non-empty in the
                      \* closure the auto-refresh interval calls
  refreshing,         \* MeetingList: the useState cell of the same name
  posts               \* MeetingList: the calls of refreshVideos awaiting
                      \* the response of their POST

vars == <<lines, i, date, overviewText, sentiment, attendance, sections,
          currentSection, currentSubsection, inOverview, sectionCounter, pc,
          headerInfo, parsedSections, analysis, title, xpc, xi, cbNumber,
          file, youtubeUrl, isProcessing, processingMode, backendStatus,
          currentView, dragActive, selectedCB, manualCB, steps, requests,
          alertMessage,
          meetings, loading, error, lastFetch, fetches, intervalSees,
          refreshing, posts>>

\* The variables of the parsers.
parserVars ==
  <<lines, i, date, overviewText, sentiment, attendance, sections, currentSection,
    currentSubsection, inOverview, sectionCounter, pc, headerInfo, parsedSections>>

\* The state of the App component (its useState cells).
appVars ==
  <<file, youtubeUrl, isProcessing, processingMode, backendStatus, currentView,
    dragActive, selectedCB, manualCB, steps, requests>>

\* The state of the App component other than the selected board.
appVarsButBoard ==
  <<file, youtubeUrl, isProcessing, processingMode, backendStatus, currentView,
    dragActive, manualCB, steps, requests>>

\* The state of the MeetingList component.
listVars ==
  <<meetings, loading, error, lastFetch, fetches, intervalSees, refreshing, posts>>

\* The state of the components around the parser.
uiVars == <<appVars, alertMessage, listVars>>

\* The variables of extractCBNumber.
extractorVars == <<title, xpc, xi, cbNumber>>

(* ---------------------------------------------------------------------- *)
(* The loop body                                                          *)
(* ---------------------------------------------------------------------- *)

\* LineClass taking any line that mentions 'Sentiment:**' for the overall
\* sentiment line.
LineClassAnySentiment(line, overview) ==
  IF startsWith(line, DateHeader) THEN "date"
  ELSE IF line = OverviewMarker THEN "overviewMarker"
  ELSE IF overview /\ line # EmptyString /\ ~startsWith(line, BoldMark) THEN "overviewText"
  ELSE IF includes(line, <<"S", "e", "n", "t", "i", "m", "e", "n", "t", ":", "*", "*">>) THEN "overallSentiment"
  ELSE IF startsWith(line, AttendanceKey) THEN "attendance"
  ELSE IF TopicHeaderMatch(line) > 0 THEN "topicHeader"
  ELSE "content"

\* The branch of the loop body that takes a (trimmed) line, in the order
\* the code tests them.
LineClass(line, overview) ==
  IF startsWith(line, DateHeader) THEN "date"
  ELSE IF line = OverviewMarker THEN "overviewMarker"
  ELSE IF overview /\ line # EmptyString /\ ~startsWith(line, BoldMark) THEN "overviewText"
  ELSE IF startsWith(line, OverallSentimentKey) THEN "overallSentiment"
  ELSE IF startsWith(line, AttendanceKey) THEN "attendance"
  ELSE IF TopicHeaderMatch(line) > 0 THEN "topicHeader"
  ELSE "content"

\* The value of a 'key value' line: line.replace(key, '').trim()
FieldValue(line, key) == trim(replace(line, key, EmptyString))

\* NewSection numbering the topic with the counter as it was before the
\* increment (0-based).
NewSectionOffByOne(counter, line) ==
  [number      |-> counter - 1,
   title       |-> trim(substring(line, TopicHeaderMatch(line))),
   speakers    |-> EmptyString,
   sentiment   |-> EmptyString,
   summary     |-> EmptyString,
   decisions   |-> <<>>,
   actionItems |-> <<>>]

\* The topic opened by a header line.
NewSection(counter, line) ==
  [number      |-> counter,
   title       |-> trim(substring(line, TopicHeaderMatch(line))),
   speakers    |-> EmptyString,
   sentiment   |-> EmptyString,
   summary     |-> EmptyString,
   decisions   |-> <<>>,
   actionItems |-> <<>>]

\* ParseActionItem without the i++ after an Owner or Due line: the lines it
\* read are scanned again.
ParseActionItemNoSkip(doc, idx, line) ==
  LET hasOwner == idx + 1 <= Len(doc) /\ includes(doc[idx + 1], OwnerKey)
      j        == IF hasOwner THEN idx + 1 ELSE idx
      hasDue   == j + 1 <= Len(doc) /\ includes(doc[j + 1], DueKey)
  IN  [item |-> [task  |-> substring(line, 2),
                 owner |-> IF hasOwner THEN trim(stripThrough(doc[idx + 1], OwnerKey))
                           ELSE EmptyString,
                 due   |-> IF hasDue THEN trim(stripThrough(doc[j + 1], DueKey))
                           ELSE EmptyString],
       last |-> idx]

\* The action item of the bullet at index idx, with the Owner and Due lines
\* that follow it, and the loop index after the lines it consumed.
ParseActionItem(doc, idx, line) ==
  LET hasOwner == idx + 1 <= Len(doc) /\ includes(doc[idx + 1], OwnerKey)
      j        == IF hasOwner THEN idx + 1 ELSE idx
      hasDue   == j + 1 <= Len(doc) /\ includes(doc[j + 1], DueKey)
  IN  [item |-> [task  |-> substring(line, 2),
                 owner |-> IF hasOwner THEN trim(stripThrough(doc[idx + 1], OwnerKey))
                           ELSE EmptyString,
                 due   |-> IF hasDue THEN trim(stripThrough(doc[j + 1], DueKey))
                           ELSE EmptyString],
       last |-> IF hasDue THEN j + 1 ELSE j]

\* BulletLine recording an action-item bullet among the decisions as well.
BulletLineBothLists(section, subsection, doc, idx, line) ==
  IF subsection = "decisions" THEN
    [section |-> [section EXCEPT !.decisions = Append(@, substring(line, 2))],
     last |-> idx]
  ELSE IF subsection = "actionItems" THEN
    LET a == ParseActionItem(doc, idx, line)
    IN  [section |-> [section EXCEPT !.actionItems = Append(@, a.item),
                                     !.decisions = Append(@, substring(line, 2))],
         last |-> a.last]
  ELSE [section |-> section, last |-> idx]

\* A bullet line inside a topic: a decision, or an action item with its
\* Owner and Due lines, according to the subsection cursor.
BulletLine(section, subsection, doc, idx, line) ==
  IF subsection = "decisions" THEN
    [section |-> [section EXCEPT !.decisions = Append(@, substring(line, 2))],
     last |-> idx]
  ELSE IF subsection = "actionItems" THEN
    LET a == ParseActionItem(doc, idx, line)
    IN  [section |-> [section EXCEPT !.actionItems = Append(@, a.item)],
         last |-> a.last]
  ELSE [section |-> section, last |-> idx]

\* TextLine with free-floating Owner lines: in action-item mode an
\* 'Owner:' line sets the owner of the last action item.
TextLineFloatingOwner(section, subsection, line) ==
  IF subsection = "summary" /\ line # EmptyString THEN
    [section EXCEPT !.summary =
       @ \o (IF @ # EmptyString THEN <<" ">> ELSE <<>>) \o line]
  ELSE IF /\ subsection = "actionItems" /\ includes(line, OwnerKey)
          /\ section.actionItems # <<>> THEN
    [section EXCEPT !.actionItems[Len(section.actionItems)].owner =
       trim(stripThrough(line, OwnerKey))]
  ELSE section

\* TextLine joining the summary lines with no separator.
TextLineNoSeparator(section, subsection, line) ==
  IF subsection = "summary" /\ line # EmptyString THEN
    [section EXCEPT !.summary = @ \o line]
  ELSE section

\* Any other line inside a topic: joined to the summary in summary mode.
TextLine(section, subsection, line) ==
  IF subsection = "summary" /\ line # EmptyString THEN
    [section EXCEPT !.summary =
       @ \o (IF @ # EmptyString THEN <<" ">> ELSE <<>>) \o line]
  ELSE section

\* 'Parse section content': the open topic, the subsection cursor and the
\* index of the last line consumed, after a line inside a topic.
SectionContent(section, subsection, doc, idx, line) ==
  IF startsWith(line, SpeakersKey) THEN
    [section |-> [section EXCEPT !.speakers = FieldValue(line, SpeakersKey)],
     subsection |-> subsection, last |-> idx]
  ELSE IF startsWith(line, SentimentKey) THEN
    [section |-> [section EXCEPT !.sentiment = FieldValue(line, SentimentKey)],
     subsection |-> subsection, last |-> idx]
  ELSE IF line = SummaryMarker THEN
    [section |-> section, subsection |-> "summary", last |-> idx]
  ELSE IF line = DecisionsMarker THEN
    [section |-> section, subsection |-> "decisions", last |-> idx]
  ELSE IF line = ActionItemsMarker THEN
    [section |-> section, subsection |-> "actionItems", last |-> idx]
  ELSE IF startsWith(line, BulletMark) THEN
    LET b == BulletLine(section, subsection, doc, idx, line)
    IN  [section |-> b.section, subsection |-> subsection, last |-> b.last]
  ELSE
    [section |-> TextLine(section, subsection, line),
     subsection |-> subsection, last |-> idx]

\* The title line: its trailing text is the meeting date.
TitleLine(line) ==
  /\ date' = FieldValue(line, DateHeader)
  /\ i' = i + 1
  /\ UNCHANGED <<overviewText, sentiment, attendance, sections, currentSection,
                 currentSubsection, inOverview, sectionCounter>>

\* '## Meeting Overview': enter overview-capture mode.
OverviewMarkerLine ==
  /\ inOverview' = TRUE
  /\ i' = i + 1
  /\ UNCHANGED <<date, overviewText, sentiment, attendance, sections,
                 currentSection, currentSubsection, sectionCounter>>

\* OverviewLine that stays in overview-capture mode.
OverviewLineStaysOpen(line) ==
  /\ overviewText' = line
  /\ inOverview' = inOverview
  /\ i' = i + 1
  /\ UNCHANGED <<date, sentiment, attendance, sections, currentSection,
                 currentSubsection, sectionCounter>>

\* The line captured as the overview text; capture mode ends.
OverviewLine(line) ==
  /\ overviewText' = line
  /\ inOverview' = FALSE
  /\ i' = i + 1
  /\ UNCHANGED <<date, sentiment, attendance, sections, currentSection,
                 currentSubsection, sectionCounter>>

\* '**Overall Sentiment:** ...'
OverallSentimentLine(line) ==
  /\ sentiment' = FieldValue(line, OverallSentimentKey)
  /\ i' = i + 1
  /\ UNCHANGED <<date, overviewText, attendance, sections, currentSection,
                 currentSubsection, inOverview, sectionCounter>>

\* AttendanceLine assigning the overall sentiment instead of the attendance.
AttendanceLineIntoSentiment(line) ==
  /\ sentiment' = FieldValue(line, AttendanceKey)
  /\ i' = i + 1
  /\ UNCHANGED <<date, overviewText, attendance, sections, currentSection,
                 currentSubsection, inOverview, sectionCounter>>

\* '**Attendance:** ...'
AttendanceLine(line) ==
  /\ attendance' = FieldValue(line, AttendanceKey)
  /\ i' = i + 1
  /\ UNCHANGED <<date, overviewText, sentiment, sections, currentSection,
                 currentSubsection, inOverview, sectionCounter>>

\* TopicHeaderLine that leaves the subsection cursor where the previous
\* topic left it.
TopicHeaderLineNoReset(line) ==
  /\ sections' = IF currentSection # NULL THEN Append(sections, currentSection)
                 ELSE sections
  /\ sectionCounter' = sectionCounter + 1
  /\ currentSection' = NewSection(sectionCounter + 1, line)
  /\ currentSubsection' = currentSubsection
  /\ i' = i + 1
  /\ UNCHANGED <<date, overviewText, sentiment, attendance, inOverview>>

\* A numbered topic header: save the open topic, open the next one.
TopicHeaderLine(line) ==
  /\ sections' = IF currentSection # NULL THEN Append(sections, currentSection)
                 ELSE sections
  /\ sectionCounter' = sectionCounter + 1
  /\ currentSection' = NewSection(sectionCounter + 1, line)
  /\ currentSubsection' = ""
  /\ i' = i + 1
  /\ UNCHANGED <<date, overviewText, sentiment, attendance, inOverview>>

\* Any other line: section content when a topic is open, skipped otherwise.
ContentLine(line) ==
  IF currentSection # NULL THEN
    LET r == SectionContent(currentSection, currentSubsection, lines, i, line)
    IN  /\ currentSection' = r.section
        /\ currentSubsection' = r.subsection
        /\ i' = r.last + 1
        /\ UNCHANGED <<date, overviewText, sentiment, attendance, sections,
                       inOverview, sectionCounter>>
  ELSE
    /\ i' = i + 1
    /\ UNCHANGED <<date, overviewText, sentiment, attendance, sections,
                   currentSection, currentSubsection, inOverview, sectionCounter>>

\* One iteration of the for-loop over the lines.
ScanLine ==
  /\ pc = "scan"
  /\ i <= Len(lines)
  /\ LET line == trim(lines[i])
         class == LineClass(line, inOverview)
     IN  IF class = "date" THEN TitleLine(line)
         ELSE IF class = "overviewMarker" THEN OverviewMarkerLine
         ELSE IF class = "overviewText" THEN OverviewLine(line)
         ELSE IF class = "overallSentiment" THEN OverallSentimentLine(line)
         ELSE IF class = "attendance" THEN AttendanceLine(line)
         ELSE IF class = "topicHeader" THEN TopicHeaderLine(line)
         ELSE ContentLine(line)
  /\ UNCHANGED <<lines, pc, headerInfo, parsedSections, analysis>>
  /\ UNCHANGED extractorVars
  /\ UNCHANGED uiVars

\* After the loop: 'Don't forget the last section'.
Flush ==
  /\ pc = "scan"
  /\ i > Len(lines)
  /\ sections' = IF currentSection # NULL THEN Append(sections, currentSection)
                 ELSE sections
  /\ pc' = "done"
  /\ UNCHANGED <<lines, i, date, overviewText, sentiment, attendance, currentSection,
                 currentSubsection, inOverview, sectionCounter, headerInfo,
                 parsedSections, analysis>>
  /\ UNCHANGED extractorVars
  /\ UNCHANGED uiVars

Next == ScanLine \/ Flush

(* ---------------------------------------------------------------------- *)
(* The header of the split-based renderer                                 *)
(* ---------------------------------------------------------------------- *)

\* The document as the one string the renderer receives.
RECURSIVE JoinLines(_)
JoinLines(doc) ==
  IF Len(doc) = 1 THEN doc[1]
  ELSE doc[1] \o <<"\n">> \o JoinLines(Tail(doc))

\* markdown.match(/^(.*?)(?=## )/s): the text before the first '## ',
\* trimmed; '' when the document has no '## '.
HeaderContent(markdown) ==
  IF ~includes(markdown, <<"#", "#", " ">>) THEN EmptyString
  ELSE trim(SubSeq(markdown, 1, MinOf(Occurrences(markdown, <<"#", "#", " ">>)) - 1))

\* The positions at which /key(.+)/ matches: key followed by a character
\* other than a line terminator.
KeyMatches(s, key) ==
  {k \in Occurrences(s, key) :
     k + Len(key) <= Len(s) /\ s[k + Len(key)] \notin LineTerminators}

\* The group of s.match(/key(.+)/): the rest of the line after the first
\* match of key.
RestOfLine(s, key) ==
  LET from == MinOf(KeyMatches(s, key)) + Len(key)
      breaks == {k \in from..Len(s) : s[k] \in LineTerminators}
  IN  SubSeq(s, from, IF breaks = {} THEN Len(s) ELSE MinOf(breaks) - 1)

\* The group of /## Meeting Overview\n([\s\S]*?)(?=\*\*Overall Sentiment|$)/,
\* trimmed; '' without a match.
OverviewOf(content) ==
  LET marker == OverviewMarker \o <<"\n">>
  IN  IF ~includes(content, marker) THEN EmptyString
      ELSE LET from == MinOf(Occurrences(content, marker)) + Len(marker)
               rest == SubSeq(content, from, Len(content))
               stop == Occurrences(rest, <<"*", "*", "O", "v", "e", "r", "a", "l", "l", " ", "S", "e", "n", "t", "i", "m", "e", "n", "t">>)
           IN  trim(SubSeq(rest, 1, IF stop = {} THEN Len(rest) ELSE MinOf(stop) - 1))

\* 'Extract header info', 'Parse header content', 'Extract meeting
\* overview', 'Extract sentiment and attendance'.
ExtractHeader ==
  /\ headerInfo = NULL
  /\ LET content == HeaderContent(JoinLines(lines))
         field(key, default) ==
           IF KeyMatches(content, key) = {} THEN default ELSE RestOfLine(content, key)
     IN  headerInfo' =
           [date       |-> field(DateHeader \o <<" ">>, EmptyString),
            overview   |-> OverviewOf(content),
            sentiment  |-> field(OverallSentimentKey \o <<" ">>, NotSpecified),
            attendance |-> field(AttendanceKey \o <<" ">>, NotSpecified)]
  /\ UNCHANGED <<lines, i, date, overviewText, sentiment, attendance, sections,
                 currentSection, currentSubsection, inOverview, sectionCounter, pc,
                 parsedSections, analysis>>
  /\ UNCHANGED extractorVars
  /\ UNCHANGED uiVars

\* Both renderers on the same document.
NextBoth == ScanLine \/ Flush \/ ExtractHeader

\* The documents of at most MaxLines lines over a vocabulary of lines;
\* split('\n') never yields an empty array.
Documents(vocabulary) == UNION {[1..n -> vocabulary] : n \in 1..MaxLines}

\* null, undefined, NaN and 0 of a board number: selectedCB, cb_number and
\* manualCB are only tested for truthiness where they can be any of these.
NoNumber == 0

\* file === null
NoFile == "null"

\* error === null
NoError == "null"

\* lastFetch === null
NoDate == "null"

\* The useState initialisers of App.
AppStart ==
  /\ file = NoFile
  /\ youtubeUrl = ""
  /\ isProcessing = FALSE
  /\ backendStatus = "checking"
  /\ currentView = "analyzer"
  /\ dragActive = FALSE
  /\ selectedCB = NoNumber
  /\ manualCB = NoNumber
  /\ steps = <<>>
  /\ requests = <<>>
  /\ alertMessage = ""

\* The useState initialisers of MeetingList.
ListStart ==
  /\ meetings = <<>>
  /\ loading = TRUE
  /\ error = NoError
  /\ lastFetch = NoDate
  /\ fetches = <<>>
  /\ intervalSees = FALSE
  /\ refreshing = FALSE
  /\ posts = <<>>

\* No component mounted: the parser or the extractor alone.
UiIdle ==
  /\ AppStart
  /\ processingMode = "youtube"
  /\ ListStart

\* extractCBNumber not called.
ExtractorIdle ==
  /\ title = EmptyString
  /\ xpc = "idle"
  /\ xi = 0
  /\ cbNumber = NULL

\* The parser's variables as declared before the loop.
ParserStart ==
  /\ i = 1
  /\ date = EmptyString
  /\ overviewText = EmptyString
  /\ sentiment = NotSpecified
  /\ attendance = NotSpecified
  /\ sections = <<>>
  /\ currentSection = NULL
  /\ currentSubsection = ""
  /\ inOverview = FALSE
  /\ sectionCounter = 0
  /\ headerInfo = NULL
  /\ parsedSections = NULL

\* The parser's variables as declared before the loop, for a document of
\* the given vocabulary.
InitOver(vocabulary) ==
  /\ lines \in Documents(vocabulary)
  /\ analysis = NULL
  /\ parsedSections = NULL
  /\ ExtractorIdle
  /\ UiIdle
  /\ i = 1
  /\ date = EmptyString
  /\ overviewText = EmptyString
  /\ sentiment = NotSpecified
  /\ attendance = NotSpecified
  /\ sections = <<>>
  /\ currentSection = NULL
  /\ currentSubsection = ""
  /\ inOverview = FALSE
  /\ sectionCounter = 0
  /\ pc = "scan"
  /\ headerInfo = NULL

(* ---------------------------------------------------------------------- *)
(* Lines of the summary dialect the documents are drawn from              *)
(* ---------------------------------------------------------------------- *)

LnBlank == <<>>
LnTitle == <<"#", " ", "C", "o", "m", "m", "u", "n", "i", "t", "y", " ", "B", "o", "a", "r", "d", " ", "M", "e", "e", "t", "i", "n", "g", " ", EmDash, " ", "J", "a", "n", " ", "5">>
LnOverview == <<"#", "#", " ", "M", "e", "e", "t", "i", "n", "g", " ", "O", "v", "e", "r", "v", "i", "e", "w">>
LnText == <<"B", "u", "d", "g", "e", "t", " ", "t", "a", "l", "k">>
LnOverall == <<"*", "*", "O", "v", "e", "r", "a", "l", "l", " ", "S", "e", "n", "t", "i", "m", "e", "n", "t", ":", "*", "*", " ", "P", "o", "s", "i", "t", "i", "v", "e">>
LnAttendance == <<"*", "*", "A", "t", "t", "e", "n", "d", "a", "n", "c", "e", ":", "*", "*", " ", "4", "0">>
LnTopic1 == <<"#", "#", " ", "1", ".", " ", "Z", "o", "n", "i", "n", "g">>
LnTopic12 == <<"#", "#", " ", "1", "2", ".", " ", "P", "a", "r", "k", "s">>
LnTextPadded == <<" ", " ", "V", "o", "t", "e", " ", "p", "a", "s", "s", "e", "d", " ", " ">>
LnSpeakers == <<"*", "*", "S", "p", "e", "a", "k", "e", "r", "s", ":", "*", "*", " ", "A", "n", "n">>
LnSentiment == <<"*", "*", "S", "e", "n", "t", "i", "m", "e", "n", "t", ":", "*", "*", " ", "M", "i", "x", "e", "d">>
LnSummary == <<"#", "#", "#", " ", "S", "u", "m", "m", "a", "r", "y">>
LnDecisions == <<"#", "#", "#", " ", "D", "e", "c", "i", "s", "i", "o", "n", "s">>
LnActionItems == <<"#", "#", "#", " ", "A", "c", "t", "i", "o", "n", " ", "I", "t", "e", "m", "s">>
LnBullet == <<"-", " ", "F", "o", "r", "m", " ", "g", "r", "o", "u", "p">>
LnOwner == <<" ", " ", "O", "w", "n", "e", "r", ":", " ", "J", "a", "n", "e", " ", "D", "o", "e">>
LnDue == <<" ", " ", "D", "u", "e", ":", " ", "M", "a", "r", "c", "h", " ", "2", "0", "2", "5">>

\* Values the lines above carry.
StrZoning == <<"Z", "o", "n", "i", "n", "g">>
StrParks == <<"P", "a", "r", "k", "s">>
StrFormGroup == <<"F", "o", "r", "m", " ", "g", "r", "o", "u", "p">>
StrJaneDoe == <<"J", "a", "n", "e", " ", "D", "o", "e">>
StrMarch2025 == <<"M", "a", "r", "c", "h", " ", "2", "0", "2", "5">>
StrPositive == <<"P", "o", "s", "i", "t", "i", "v", "e">>
StrMixed == <<"M", "i", "x", "e", "d">>
StrAnn == <<"A", "n", "n">>
Str40 == <<"4", "0">>
StrBudgetTalk == <<"B", "u", "d", "g", "e", "t", " ", "t", "a", "l", "k">>
StrVotePassed == <<"V", "o", "t", "e", " ", "p", "a", "s", "s", "e", "d">>
StrJan5 == <<"J", "a", "n", " ", "5">>

VocabTopics == {LnTopic1, LnTopic12, LnOverview, LnBlank, LnDecisions, LnBullet}

InitTopics == InitOver(VocabTopics)

SpecTopics == InitTopics /\ [][Next]_vars

VocabItems == {LnTopic1, LnDecisions, LnActionItems, LnBullet, LnOwner, LnDue}

InitItems == InitOver(VocabItems)

SpecItems == InitItems /\ [][Next]_vars

VocabOverview == {LnOverview, LnBlank, LnTitle, LnText, LnOverall, LnTopic1}

InitOverview == InitOver(VocabOverview)

SpecOverview == InitOverview /\ [][Next]_vars

VocabDefaults == {LnOverall, LnAttendance, LnTopic1, LnText}

InitDefaults == InitOver(VocabDefaults)

SpecDefaults == InitDefaults /\ [][NextBoth]_vars

VocabMeta == {LnOverall, LnAttendance, LnTopic1, LnSentiment, LnSpeakers, LnSummary}

InitMeta == InitOver(VocabMeta)

SpecMeta == InitMeta /\ [][Next]_vars

VocabSummary ==
  {LnTopic1, LnOverview, LnSummary, LnDecisions, LnText, LnTextPadded, LnBullet, LnSpeakers}

\* The documents of topic summaries begin with a topic header, or with the
\* overview marker and a topic header.
InitSummary ==
  /\ InitOver(VocabSummary)
  /\ \/ lines[1] = LnTopic1
     \/ Len(lines) >= 2 /\ lines[1] = LnOverview /\ lines[2] = LnTopic1

SpecSummary == InitSummary /\ [][Next]_vars

(* ---------------------------------------------------------------------- *)
(* String.prototype.toLowerCase (src/src/App.tsx, lines 289 and 303)      *)
(*                                                                        *)
(* A string is the sequence of its UTF-16 code units.  The tables are     *)
(* those of the Unicode Character Database 17.0: the simple lower-case    *)
(* mappings of UnicodeData.txt, the two rules of SpecialCasing.txt that   *)
(* apply without a language (capital I with dot above, Final_Sigma), and  *)
(* Cased and Case_Ignorable of DerivedCoreProperties.txt.  A grave accent *)
(* is written as its escape.                                              *)
(* ---------------------------------------------------------------------- *)

\* The code units that toLowerCase replaces by one other code unit, in
\* the order of their code; CapitalUnits[n] becomes SmallUnits[n].
CapitalUnits ==
  <<
    "A", "B", "C", "D", "E", "F", "G", "H", "I", "J", "K", "L", "M", "N", "O", "P", "Q", "R", "S",
    "T", "U", "V", "W", "X", "Y", "Z", "À", "Á", "Â", "Ã", "Ä", "Å", "Æ", "Ç", "È", "É", "Ê", "Ë",
    "Ì", "Í", "Î", "Ï", "Ð", "Ñ", "Ò", "Ó", "Ô", "Õ", "Ö", "Ø", "Ù", "Ú", "Û", "Ü", "Ý", "Þ",
    "\\u0100", "\\u0102", "\\u0104", "\\u0106", "\\u0108", "\\u010a", "\\u010c", "\\u010e",
    "\\u0110", "\\u0112", "\\u0114", "\\u0116", "\\u0118", "\\u011a", "\\u011c", "\\u011e",
    "\\u0120", "\\u0122", "\\u0124", "\\u0126", "\\u0128", "\\u012a", "\\u012c", "\\u012e",
    "\\u0132", "\\u0134", "\\u0136", "\\u0139", "\\u013b", "\\u013d", "\\u013f", "\\u0141",
    "\\u0143", "\\u0145", "\\u0147", "\\u014a", "\\u014c", "\\u014e", "\\u0150", "\\u0152",
    "\\u0154", "\\u0156", "\\u0158", "\\u015a", "\\u015c", "\\u015e", "\\u0160", "\\u0162",
    "\\u0164", "\\u0166", "\\u0168", "\\u016a", "\\u016c", "\\u016e", "\\u0170", "\\u0172",
    "\\u0174", "\\u0176", "\\u0178", "\\u0179", "\\u017b", "\\u017d", "\\u0181", "\\u0182",
    "\\u0184", "\\u0186", "\\u0187", "\\u0189", "\\u018a", "\\u018b", "\\u018e", "\\u018f",
    "\\u0190", "\\u0191", "\\u0193", "\\u0194", "\\u0196", "\\u0197", "\\u0198", "\\u019c",
    "\\u019d", "\\u019f", "\\u01a0", "\\u01a2", "\\u01a4", "\\u01a6", "\\u01a7", "\\u01a9",
    "\\u01ac", "\\u01ae", "\\u01af", "\\u01b1", "\\u01b2", "\\u01b3", "\\u01b5", "\\u01b7",
    "\\u01b8", "\\u01bc", "\\u01c4", "\\u01c5", "\\u01c7", "\\u01c8", "\\u01ca", "\\u01cb",
    "\\u01cd", "\\u01cf", "\\u01d1", "\\u01d3", "\\u01d5", "\\u01d7", "\\u01d9", "\\u01db",
    "\\u01de", "\\u01e0", "\\u01e2", "\\u01e4", "\\u01e6", "\\u01e8", "\\u01ea", "\\u01ec",
    "\\u01ee", "\\u01f1", "\\u01f2", "\\u01f4", "\\u01f6", "\\u01f7", "\\u01f8", "\\u01fa",
    "\\u01fc", "\\u01fe", "\\u0200", "\\u0202", "\\u0204", "\\u0206", "\\u0208", "\\u020a",
    "\\u020c", "\\u020e", "\\u0210", "\\u0212", "\\u0214", "\\u0216", "\\u0218", "\\u021a",
    "\\u021c", "\\u021e", "\\u0220", "\\u0222", "\\u0224", "\\u0226", "\\u0228", "\\u022a",
    "\\u022c", "\\u022e", "\\u0230", "\\u0232", "\\u023a", "\\u023b", "\\u023d", "\\u023e",
    "\\u0241", "\\u0243", "\\u0244", "\\u0245", "\\u0246", "\\u0248", "\\u024a", "\\u024c",
    "\\u024e", "\\u0370", "\\u0372", "\\u0376", "\\u037f", "\\u0386", "\\u0388", "\\u0389",
    "\\u038a", "\\u038c", "\\u038e", "\\u038f", "\\u0391", "\\u0392", "\\u0393", "\\u0394",
    "\\u0395", "\\u0396", "\\u0397", "\\u0398", "\\u0399", "\\u039a", "\\u039b", "\\u039c",
    "\\u039d", "\\u039e", "\\u039f", "\\u03a0", "\\u03a1", "\\u03a3", "\\u03a4", "\\u03a5",
    "\\u03a6", "\\u03a7", "\\u03a8", "\\u03a9", "\\u03aa", "\\u03ab", "\\u03cf", "\\u03d8",
    "\\u03da", "\\u03dc", "\\u03de", "\\u03e0", "\\u03e2", "\\u03e4", "\\u03e6", "\\u03e8",
    "\\u03ea", "\\u03ec", "\\u03ee", "\\u03f4", "\\u03f7", "\\u03f9", "\\u03fa", "\\u03fd",
    "\\u03fe", "\\u03ff", "\\u0400", "\\u0401", "\\u0402", "\\u0403", "\\u0404", "\\u0405",
    "\\u0406", "\\u0407", "\\u0408", "\\u0409", "\\u040a", "\\u040b", "\\u040c", "\\u040d",
    "\\u040e", "\\u040f", "\\u0410", "\\u0411", "\\u0412", "\\u0413", "\\u0414", "\\u0415",
    "\\u0416", "\\u0417", "\\u0418", "\\u0419", "\\u041a", "\\u041b", "\\u041c", "\\u041d",
    "\\u041e", "\\u041f", "\\u0420", "\\u0421", "\\u0422", "\\u0423", "\\u0424", "\\u0425",
    "\\u0426", "\\u0427", "\\u0428", "\\u0429", "\\u042a", "\\u042b", "\\u042c", "\\u042d",
    "\\u042e", "\\u042f", "\\u0460", "\\u0462", "\\u0464", "\\u0466", "\\u0468", "\\u046a",
    "\\u046c", "\\u046e", "\\u0470", "\\u0472", "\\u0474", "\\u0476", "\\u0478", "\\u047a",
    "\\u047c", "\\u047e", "\\u0480", "\\u048a", "\\u048c", "\\u048e", "\\u0490", "\\u0492",
    "\\u0494", "\\u0496", "\\u0498", "\\u049a", "\\u049c", "\\u049e", "\\u04a0", "\\u04a2",
    "\\u04a4", "\\u04a6", "\\u04a8", "\\u04aa", "\\u04ac", "\\u04ae", "\\u04b0", "\\u04b2",
    "\\u04b4", "\\u04b6", "\\u04b8", "\\u04ba", "\\u04bc", "\\u04be", "\\u04c0", "\\u04c1",
    "\\u04c3", "\\u04c5", "\\u04c7", "\\u04c9", "\\u04cb", "\\u04cd", "\\u04d0", "\\u04d2",
    "\\u04d4", "\\u04d6", "\\u04d8", "\\u04da", "\\u04dc", "\\u04de", "\\u04e0", "\\u04e2",
    "\\u04e4", "\\u04e6", "\\u04e8", "\\u04ea", "\\u04ec", "\\u04ee", "\\u04f0", "\\u04f2",
    "\\u04f4", "\\u04f6", "\\u04f8", "\\u04fa", "\\u04fc", "\\u04fe", "\\u0500", "\\u0502",
    "\\u0504", "\\u0506", "\\u0508", "\\u050a", "\\u050c", "\\u050e", "\\u0510", "\\u0512",
    "\\u0514", "\\u0516", "\\u0518", "\\u051a", "\\u051c", "\\u051e", "\\u0520", "\\u0522",
    "\\u0524", "\\u0526", "\\u0528", "\\u052a", "\\u052c", "\\u052e", "\\u0531", "\\u0532",
    "\\u0533", "\\u0534", "\\u0535", "\\u0536", "\\u0537", "\\u0538", "\\u0539", "\\u053a",
    "\\u053b", "\\u053c", "\\u053d", "\\u053e", "\\u053f", "\\u0540", "\\u0541", "\\u0542",
    "\\u0543", "\\u0544", "\\u0545", "\\u0546", "\\u0547", "\\u0548", "\\u0549", "\\u054a",
    "\\u054b", "\\u054c", "\\u054d", "\\u054e", "\\u054f", "\\u0550", "\\u0551", "\\u0552",
    "\\u0553", "\\u0554", "\\u0555", "\\u0556", "\\u10a0", "\\u10a1", "\\u10a2", "\\u10a3",
    "\\u10a4", "\\u10a5", "\\u10a6", "\\u10a7", "\\u10a8", "\\u10a9", "\\u10aa", "\\u10ab",
    "\\u10ac", "\\u10ad", "\\u10ae", "\\u10af", "\\u10b0", "\\u10b1", "\\u10b2", "\\u10b3",
    "\\u10b4", "\\u10b5", "\\u10b6", "\\u10b7", "\\u10b8", "\\u10b9", "\\u10ba", "\\u10bb",
    "\\u10bc", "\\u10bd", "\\u10be", "\\u10bf", "\\u10c0", "\\u10c1", "\\u10c2", "\\u10c3",
    "\\u10c4", "\\u10c5", "\\u10c7", "\\u10cd", "\\u13a0", "\\u13a1", "\\u13a2", "\\u13a3",
    "\\u13a4", "\\u13a5", "\\u13a6", "\\u13a7", "\\u13a8", "\\u13a9", "\\u13aa", "\\u13ab",
    "\\u13ac", "\\u13ad", "\\u13ae", "\\u13af", "\\u13b0", "\\u13b1", "\\u13b2", "\\u13b3",
    "\\u13b4", "\\u13b5", "\\u13b6", "\\u13b7", "\\u13b8", "\\u13b9", "\\u13ba", "\\u13bb",
    "\\u13bc", "\\u13bd", "\\u13be", "\\u13bf", "\\u13c0", "\\u13c1", "\\u13c2", "\\u13c3",
    "\\u13c4", "\\u13c5", "\\u13c6", "\\u13c7", "\\u13c8", "\\u13c9", "\\u13ca", "\\u13cb",
    "\\u13cc", "\\u13cd", "\\u13ce", "\\u13cf", "\\u13d0", "\\u13d1", "\\u13d2", "\\u13d3",
    "\\u13d4", "\\u13d5", "\\u13d6", "\\u13d7", "\\u13d8", "\\u13d9", "\\u13da", "\\u13db",
    "\\u13dc", "\\u13dd", "\\u13de", "\\u13df", "\\u13e0", "\\u13e1", "\\u13e2", "\\u13e3",
    "\\u13e4", "\\u13e5", "\\u13e6", "\\u13e7", "\\u13e8", "\\u13e9", "\\u13ea", "\\u13eb",
    "\\u13ec", "\\u13ed", "\\u13ee", "\\u13ef", "\\u13f0", "\\u13f1", "\\u13f2", "\\u13f3",
    "\\u13f4", "\\u13f5", "\\u1c89", "\\u1c90", "\\u1c91", "\\u1c92", "\\u1c93", "\\u1c94",
    "\\u1c95", "\\u1c96", "\\u1c97", "\\u1c98", "\\u1c99", "\\u1c9a", "\\u1c9b", "\\u1c9c",
    "\\u1c9d", "\\u1c9e", "\\u1c9f", "\\u1ca0", "\\u1ca1", "\\u1ca2", "\\u1ca3", "\\u1ca4",
    "\\u1ca5", "\\u1ca6", "\\u1ca7", "\\u1ca8", "\\u1ca9", "\\u1caa", "\\u1cab", "\\u1cac",
    "\\u1cad", "\\u1cae", "\\u1caf", "\\u1cb0", "\\u1cb1", "\\u1cb2", "\\u1cb3", "\\u1cb4",
    "\\u1cb5", "\\u1cb6", "\\u1cb7", "\\u1cb8", "\\u1cb9", "\\u1cba", "\\u1cbd", "\\u1cbe",
    "\\u1cbf", "\\u1e00", "\\u1e02", "\\u1e04", "\\u1e06", "\\u1e08", "\\u1e0a", "\\u1e0c",
    "\\u1e0e", "\\u1e10", "\\u1e12", "\\u1e14", "\\u1e16", "\\u1e18", "\\u1e1a", "\\u1e1c",
    "\\u1e1e", "\\u1e20", "\\u1e22", "\\u1e24", "\\u1e26", "\\u1e28", "\\u1e2a", "\\u1e2c",
    "\\u1e2e", "\\u1e30", "\\u1e32", "\\u1e34", "\\u1e36", "\\u1e38", "\\u1e3a", "\\u1e3c",
    "\\u1e3e", "\\u1e40", "\\u1e42", "\\u1e44", "\\u1e46", "\\u1e48", "\\u1e4a", "\\u1e4c",
    "\\u1e4e", "\\u1e50", "\\u1e52", "\\u1e54", "\\u1e56", "\\u1e58", "\\u1e5a", "\\u1e5c",
    "\\u1e5e", "\\u1e60", "\\u1e62", "\\u1e64", "\\u1e66", "\\u1e68", "\\u1e6a", "\\u1e6c",
    "\\u1e6e", "\\u1e70", "\\u1e72", "\\u1e74", "\\u1e76", "\\u1e78", "\\u1e7a", "\\u1e7c",
    "\\u1e7e", "\\u1e80", "\\u1e82", "\\u1e84", "\\u1e86", "\\u1e88", "\\u1e8a", "\\u1e8c",
    "\\u1e8e", "\\u1e90", "\\u1e92", "\\u1e94", "\\u1e9e", "\\u1ea0", "\\u1ea2", "\\u1ea4",
    "\\u1ea6", "\\u1ea8", "\\u1eaa", "\\u1eac", "\\u1eae", "\\u1eb0", "\\u1eb2", "\\u1eb4",
    "\\u1eb6", "\\u1eb8", "\\u1eba", "\\u1ebc", "\\u1ebe", "\\u1ec0", "\\u1ec2", "\\u1ec4",
    "\\u1ec6", "\\u1ec8", "\\u1eca", "\\u1ecc", "\\u1ece", "\\u1ed0", "\\u1ed2", "\\u1ed4",
    "\\u1ed6", "\\u1ed8", "\\u1eda", "\\u1edc", "\\u1ede", "\\u1ee0", "\\u1ee2", "\\u1ee4",
    "\\u1ee6", "\\u1ee8", "\\u1eea", "\\u1eec", "\\u1eee", "\\u1ef0", "\\u1ef2", "\\u1ef4",
    "\\u1ef6", "\\u1ef8", "\\u1efa", "\\u1efc", "\\u1efe", "\\u1f08", "\\u1f09", "\\u1f0a",
    "\\u1f0b", "\\u1f0c", "\\u1f0d", "\\u1f0e", "\\u1f0f", "\\u1f18", "\\u1f19", "\\u1f1a",
    "\\u1f1b", "\\u1f1c", "\\u1f1d", "\\u1f28", "\\u1f29", "\\u1f2a", "\\u1f2b", "\\u1f2c",
    "\\u1f2d", "\\u1f2e", "\\u1f2f", "\\u1f38", "\\u1f39", "\\u1f3a", "\\u1f3b", "\\u1f3c",
    "\\u1f3d", "\\u1f3e", "\\u1f3f", "\\u1f48", "\\u1f49", "\\u1f4a", "\\u1f4b", "\\u1f4c",
    "\\u1f4d", "\\u1f59", "\\u1f5b", "\\u1f5d", "\\u1f5f", "\\u1f68", "\\u1f69", "\\u1f6a",
    "\\u1f6b", "\\u1f6c", "\\u1f6d", "\\u1f6e", "\\u1f6f", "\\u1f88", "\\u1f89", "\\u1f8a",
    "\\u1f8b", "\\u1f8c", "\\u1f8d", "\\u1f8e", "\\u1f8f", "\\u1f98", "\\u1f99", "\\u1f9a",
    "\\u1f9b", "\\u1f9c", "\\u1f9d", "\\u1f9e", "\\u1f9f", "\\u1fa8", "\\u1fa9", "\\u1faa",
    "\\u1fab", "\\u1fac", "\\u1fad", "\\u1fae", "\\u1faf", "\\u1fb8", "\\u1fb9", "\\u1fba",
    "\\u1fbb", "\\u1fbc", "\\u1fc8", "\\u1fc9", "\\u1fca", "\\u1fcb", "\\u1fcc", "\\u1fd8",
    "\\u1fd9", "\\u1fda", "\\u1fdb", "\\u1fe8", "\\u1fe9", "\\u1fea", "\\u1feb", "\\u1fec",
    "\\u1ff8", "\\u1ff9", "\\u1ffa", "\\u1ffb", "\\u1ffc", "\\u2126", "\\u212a", "\\u212b",
    "\\u2132", "\\u2160", "\\u2161", "\\u2162", "\\u2163", "\\u2164", "\\u2165", "\\u2166",
    "\\u2167", "\\u2168", "\\u2169", "\\u216a", "\\u216b", "\\u216c", "\\u216d", "\\u216e",
    "\\u216f", "\\u2183", "\\u24b6", "\\u24b7", "\\u24b8", "\\u24b9", "\\u24ba", "\\u24bb",
    "\\u24bc", "\\u24bd", "\\u24be", "\\u24bf", "\\u24c0", "\\u24c1", "\\u24c2", "\\u24c3",
    "\\u24c4", "\\u24c5", "\\u24c6", "\\u24c7", "\\u24c8", "\\u24c9", "\\u24ca", "\\u24cb",
    "\\u24cc", "\\u24cd", "\\u24ce", "\\u24cf", "\\u2c00", "\\u2c01", "\\u2c02", "\\u2c03",
    "\\u2c04", "\\u2c05", "\\u2c06", "\\u2c07", "\\u2c08", "\\u2c09", "\\u2c0a", "\\u2c0b",
    "\\u2c0c", "\\u2c0d", "\\u2c0e", "\\u2c0f", "\\u2c10", "\\u2c11", "\\u2c12", "\\u2c13",
    "\\u2c14", "\\u2c15", "\\u2c16", "\\u2c17", "\\u2c18", "\\u2c19", "\\u2c1a", "\\u2c1b",
    "\\u2c1c", "\\u2c1d", "\\u2c1e", "\\u2c1f", "\\u2c20", "\\u2c21", "\\u2c22", "\\u2c23",
    "\\u2c24", "\\u2c25", "\\u2c26", "\\u2c27", "\\u2c28", "\\u2c29", "\\u2c2a", "\\u2c2b",
    "\\u2c2c", "\\u2c2d", "\\u2c2e", "\\u2c2f", "\\u2c60", "\\u2c62", "\\u2c63", "\\u2c64",
    "\\u2c67", "\\u2c69", "\\u2c6b", "\\u2c6d", "\\u2c6e", "\\u2c6f", "\\u2c70", "\\u2c72",
    "\\u2c75", "\\u2c7e", "\\u2c7f", "\\u2c80", "\\u2c82", "\\u2c84", "\\u2c86", "\\u2c88",
    "\\u2c8a", "\\u2c8c", "\\u2c8e", "\\u2c90", "\\u2c92", "\\u2c94", "\\u2c96", "\\u2c98",
    "\\u2c9a", "\\u2c9c", "\\u2c9e", "\\u2ca0", "\\u2ca2", "\\u2ca4", "\\u2ca6", "\\u2ca8",
    "\\u2caa", "\\u2cac", "\\u2cae", "\\u2cb0", "\\u2cb2", "\\u2cb4", "\\u2cb6", "\\u2cb8",
    "\\u2cba", "\\u2cbc", "\\u2cbe", "\\u2cc0", "\\u2cc2", "\\u2cc4", "\\u2cc6", "\\u2cc8",
    "\\u2cca", "\\u2ccc", "\\u2cce", "\\u2cd0", "\\u2cd2", "\\u2cd4", "\\u2cd6", "\\u2cd8",
    "\\u2cda", "\\u2cdc", "\\u2cde", "\\u2ce0", "\\u2ce2", "\\u2ceb", "\\u2ced", "\\u2cf2",
    "\\ua640", "\\ua642", "\\ua644", "\\ua646", "\\ua648", "\\ua64a", "\\ua64c", "\\ua64e",
    "\\ua650", "\\ua652", "\\ua654", "\\ua656", "\\ua658", "\\ua65a", "\\ua65c", "\\ua65e",
    "\\ua660", "\\ua662", "\\ua664", "\\ua666", "\\ua668", "\\ua66a", "\\ua66c", "\\ua680",
    "\\ua682", "\\ua684", "\\ua686", "\\ua688", "\\ua68a", "\\ua68c", "\\ua68e", "\\ua690",
    "\\ua692", "\\ua694", "\\ua696", "\\ua698", "\\ua69a", "\\ua722", "\\ua724", "\\ua726",
    "\\ua728", "\\ua72a", "\\ua72c", "\\ua72e", "\\ua732", "\\ua734", "\\ua736", "\\ua738",
    "\\ua73a", "\\ua73c", "\\ua73e", "\\ua740", "\\ua742", "\\ua744", "\\ua746", "\\ua748",
    "\\ua74a", "\\ua74c", "\\ua74e", "\\ua750", "\\ua752", "\\ua754", "\\ua756", "\\ua758",
    "\\ua75a", "\\ua75c", "\\ua75e", "\\ua760", "\\ua762", "\\ua764", "\\ua766", "\\ua768",
    "\\ua76a", "\\ua76c", "\\ua76e", "\\ua779", "\\ua77b", "\\ua77d", "\\ua77e", "\\ua780",
    "\\ua782", "\\ua784", "\\ua786", "\\ua78b", "\\ua78d", "\\ua790", "\\ua792", "\\ua796",
    "\\ua798", "\\ua79a", "\\ua79c", "\\ua79e", "\\ua7a0", "\\ua7a2", "\\ua7a4", "\\ua7a6",
    "\\ua7a8", "\\ua7aa", "\\ua7ab", "\\ua7ac", "\\ua7ad", "\\ua7ae", "\\ua7b0", "\\ua7b1",
    "\\ua7b2", "\\ua7b3", "\\ua7b4", "\\ua7b6", "\\ua7b8", "\\ua7ba", "\\ua7bc", "\\ua7be",
    "\\ua7c0", "\\ua7c2", "\\ua7c4", "\\ua7c5", "\\ua7c6", "\\ua7c7", "\\ua7c9", "\\ua7cb",
    "\\ua7cc", "\\ua7ce", "\\ua7d0", "\\ua7d2", "\\ua7d4", "\\ua7d6", "\\ua7d8", "\\ua7da",
    "\\ua7dc", "\\ua7f5", "\\uff21", "\\uff22", "\\uff23", "\\uff24", "\\uff25", "\\uff26",
    "\\uff27", "\\uff28", "\\uff29", "\\uff2a", "\\uff2b", "\\uff2c", "\\uff2d", "\\uff2e",
    "\\uff2f", "\\uff30", "\\uff31", "\\uff32", "\\uff33", "\\uff34", "\\uff35", "\\uff36",
    "\\uff37", "\\uff38", "\\uff39", "\\uff3a" >>

SmallUnits ==
  <<
    "a", "b", "c", "d", "e", "f", "g", "h", "i", "j", "k", "l", "m", "n", "o", "p", "q", "r", "s",
    "t", "u", "v", "w", "x", "y", "z", "à", "á", "â", "ã", "ä", "å", "æ", "ç", "è", "é", "ê", "ë",
    "ì", "í", "î", "ï", "ð", "ñ", "ò", "ó", "ô", "õ", "ö", "ø", "ù", "ú", "û", "ü", "ý", "þ",
    "\\u0101", "\\u0103", "\\u0105", "\\u0107", "\\u0109", "\\u010b", "\\u010d", "\\u010f",
    "\\u0111", "\\u0113", "\\u0115", "\\u0117", "\\u0119", "\\u011b", "\\u011d", "\\u011f",
    "\\u0121", "\\u0123", "\\u0125", "\\u0127", "\\u0129", "\\u012b", "\\u012d", "\\u012f",
    "\\u0133", "\\u0135", "\\u0137", "\\u013a", "\\u013c", "\\u013e", "\\u0140", "\\u0142",
    "\\u0144", "\\u0146", "\\u0148", "\\u014b", "\\u014d", "\\u014f", "\\u0151", "\\u0153",
    "\\u0155", "\\u0157", "\\u0159", "\\u015b", "\\u015d", "\\u015f", "\\u0161", "\\u0163",
    "\\u0165", "\\u0167", "\\u0169", "\\u016b", "\\u016d", "\\u016f", "\\u0171", "\\u0173",
    "\\u0175", "\\u0177", "ÿ", "\\u017a", "\\u017c", "\\u017e", "\\u0253", "\\u0183", "\\u0185",
    "\\u0254", "\\u0188", "\\u0256", "\\u0257", "\\u018c", "\\u01dd", "\\u0259", "\\u025b",
    "\\u0192", "\\u0260", "\\u0263", "\\u0269", "\\u0268", "\\u0199", "\\u026f", "\\u0272",
    "\\u0275", "\\u01a1", "\\u01a3", "\\u01a5", "\\u0280", "\\u01a8", "\\u0283", "\\u01ad",
    "\\u0288", "\\u01b0", "\\u028a", "\\u028b", "\\u01b4", "\\u01b6", "\\u0292", "\\u01b9",
    "\\u01bd", "\\u01c6", "\\u01c6", "\\u01c9", "\\u01c9", "\\u01cc", "\\u01cc", "\\u01ce",
    "\\u01d0", "\\u01d2", "\\u01d4", "\\u01d6", "\\u01d8", "\\u01da", "\\u01dc", "\\u01df",
    "\\u01e1", "\\u01e3", "\\u01e5", "\\u01e7", "\\u01e9", "\\u01eb", "\\u01ed", "\\u01ef",
    "\\u01f3", "\\u01f3", "\\u01f5", "\\u0195", "\\u01bf", "\\u01f9", "\\u01fb", "\\u01fd",
    "\\u01ff", "\\u0201", "\\u0203", "\\u0205", "\\u0207", "\\u0209", "\\u020b", "\\u020d",
    "\\u020f", "\\u0211", "\\u0213", "\\u0215", "\\u0217", "\\u0219", "\\u021b", "\\u021d",
    "\\u021f", "\\u019e", "\\u0223", "\\u0225", "\\u0227", "\\u0229", "\\u022b", "\\u022d",
    "\\u022f", "\\u0231", "\\u0233", "\\u2c65", "\\u023c", "\\u019a", "\\u2c66", "\\u0242",
    "\\u0180", "\\u0289", "\\u028c", "\\u0247", "\\u0249", "\\u024b", "\\u024d", "\\u024f",
    "\\u0371", "\\u0373", "\\u0377", "\\u03f3", "\\u03ac", "\\u03ad", "\\u03ae", "\\u03af",
    "\\u03cc", "\\u03cd", "\\u03ce", "\\u03b1", "\\u03b2", "\\u03b3", "\\u03b4", "\\u03b5",
    "\\u03b6", "\\u03b7", "\\u03b8", "\\u03b9", "\\u03ba", "\\u03bb", "\\u03bc", "\\u03bd",
    "\\u03be", "\\u03bf", "\\u03c0", "\\u03c1", "\\u03c3", "\\u03c4", "\\u03c5", "\\u03c6",
    "\\u03c7", "\\u03c8", "\\u03c9", "\\u03ca", "\\u03cb", "\\u03d7", "\\u03d9", "\\u03db",
    "\\u03dd", "\\u03df", "\\u03e1", "\\u03e3", "\\u03e5", "\\u03e7", "\\u03e9", "\\u03eb",
    "\\u03ed", "\\u03ef", "\\u03b8", "\\u03f8", "\\u03f2", "\\u03fb", "\\u037b", "\\u037c",
    "\\u037d", "\\u0450", "\\u0451", "\\u0452", "\\u0453", "\\u0454", "\\u0455", "\\u0456",
    "\\u0457", "\\u0458", "\\u0459", "\\u045a", "\\u045b", "\\u045c", "\\u045d", "\\u045e",
    "\\u045f", "\\u0430", "\\u0431", "\\u0432", "\\u0433", "\\u0434", "\\u0435", "\\u0436",
    "\\u0437", "\\u0438", "\\u0439", "\\u043a", "\\u043b", "\\u043c", "\\u043d", "\\u043e",
    "\\u043f", "\\u0440", "\\u0441", "\\u0442", "\\u0443", "\\u0444", "\\u0445", "\\u0446",
    "\\u0447", "\\u0448", "\\u0449", "\\u044a", "\\u044b", "\\u044c", "\\u044d", "\\u044e",
    "\\u044f", "\\u0461", "\\u0463", "\\u0465", "\\u0467", "\\u0469", "\\u046b", "\\u046d",
    "\\u046f", "\\u0471", "\\u0473", "\\u0475", "\\u0477", "\\u0479", "\\u047b", "\\u047d",
    "\\u047f", "\\u0481", "\\u048b", "\\u048d", "\\u048f", "\\u0491", "\\u0493", "\\u0495",
    "\\u0497", "\\u0499", "\\u049b", "\\u049d", "\\u049f", "\\u04a1", "\\u04a3", "\\u04a5",
    "\\u04a7", "\\u04a9", "\\u04ab", "\\u04ad", "\\u04af", "\\u04b1", "\\u04b3", "\\u04b5",
    "\\u04b7", "\\u04b9", "\\u04bb", "\\u04bd", "\\u04bf", "\\u04cf", "\\u04c2", "\\u04c4",
    "\\u04c6", "\\u04c8", "\\u04ca", "\\u04cc", "\\u04ce", "\\u04d1", "\\u04d3", "\\u04d5",
    "\\u04d7", "\\u04d9", "\\u04db", "\\u04dd", "\\u04df", "\\u04e1", "\\u04e3", "\\u04e5",
    "\\u04e7", "\\u04e9", "\\u04eb", "\\u04ed", "\\u04ef", "\\u04f1", "\\u04f3", "\\u04f5",
    "\\u04f7", "\\u04f9", "\\u04fb", "\\u04fd", "\\u04ff", "\\u0501", "\\u0503", "\\u0505",
    "\\u0507", "\\u0509", "\\u050b", "\\u050d", "\\u050f", "\\u0511", "\\u0513", "\\u0515",
    "\\u0517", "\\u0519", "\\u051b", "\\u051d", "\\u051f", "\\u0521", "\\u0523", "\\u0525",
    "\\u0527", "\\u0529", "\\u052b", "\\u052d", "\\u052f", "\\u0561", "\\u0562", "\\u0563",
    "\\u0564", "\\u0565", "\\u0566", "\\u0567", "\\u0568", "\\u0569", "\\u056a", "\\u056b",
    "\\u056c", "\\u056d", "\\u056e", "\\u056f", "\\u0570", "\\u0571", "\\u0572", "\\u0573",
    "\\u0574", "\\u0575", "\\u0576", "\\u0577", "\\u0578", "\\u0579", "\\u057a", "\\u057b",
    "\\u057c", "\\u057d", "\\u057e", "\\u057f", "\\u0580", "\\u0581", "\\u0582", "\\u0583",
    "\\u0584", "\\u0585", "\\u0586", "\\u2d00", "\\u2d01", "\\u2d02", "\\u2d03", "\\u2d04",
    "\\u2d05", "\\u2d06", "\\u2d07", "\\u2d08", "\\u2d09", "\\u2d0a", "\\u2d0b", "\\u2d0c",
    "\\u2d0d", "\\u2d0e", "\\u2d0f", "\\u2d10", "\\u2d11", "\\u2d12", "\\u2d13", "\\u2d14",
    "\\u2d15", "\\u2d16", "\\u2d17", "\\u2d18", "\\u2d19", "\\u2d1a", "\\u2d1b", "\\u2d1c",
    "\\u2d1d", "\\u2d1e", "\\u2d1f", "\\u2d20", "\\u2d21", "\\u2d22", "\\u2d23", "\\u2d24",
    "\\u2d25", "\\u2d27", "\\u2d2d", "\\uab70", "\\uab71", "\\uab72", "\\uab73", "\\uab74",
    "\\uab75", "\\uab76", "\\uab77", "\\uab78", "\\uab79", "\\uab7a", "\\uab7b", "\\uab7c",
    "\\uab7d", "\\uab7e", "\\uab7f", "\\uab80", "\\uab81", "\\uab82", "\\uab83", "\\uab84",
    "\\uab85", "\\uab86", "\\uab87", "\\uab88", "\\uab89", "\\uab8a", "\\uab8b", "\\uab8c",
    "\\uab8d", "\\uab8e", "\\uab8f", "\\uab90", "\\uab91", "\\uab92", "\\uab93", "\\uab94",
    "\\uab95", "\\uab96", "\\uab97", "\\uab98", "\\uab99", "\\uab9a", "\\uab9b", "\\uab9c",
    "\\uab9d", "\\uab9e", "\\uab9f", "\\uaba0", "\\uaba1", "\\uaba2", "\\uaba3", "\\uaba4",
    "\\uaba5", "\\uaba6", "\\uaba7", "\\uaba8", "\\uaba9", "\\uabaa", "\\uabab", "\\uabac",
    "\\uabad", "\\uabae", "\\uabaf", "\\uabb0", "\\uabb1", "\\uabb2", "\\uabb3", "\\uabb4",
    "\\uabb5", "\\uabb6", "\\uabb7", "\\uabb8", "\\uabb9", "\\uabba", "\\uabbb", "\\uabbc",
    "\\uabbd", "\\uabbe", "\\uabbf", "\\u13f8", "\\u13f9", "\\u13fa", "\\u13fb", "\\u13fc",
    "\\u13fd", "\\u1c8a", "\\u10d0", "\\u10d1", "\\u10d2", "\\u10d3", "\\u10d4", "\\u10d5",
    "\\u10d6", "\\u10d7", "\\u10d8", "\\u10d9", "\\u10da", "\\u10db", "\\u10dc", "\\u10dd",
    "\\u10de", "\\u10df", "\\u10e0", "\\u10e1", "\\u10e2", "\\u10e3", "\\u10e4", "\\u10e5",
    "\\u10e6", "\\u10e7", "\\u10e8", "\\u10e9", "\\u10ea", "\\u10eb", "\\u10ec", "\\u10ed",
    "\\u10ee", "\\u10ef", "\\u10f0", "\\u10f1", "\\u10f2", "\\u10f3", "\\u10f4", "\\u10f5",
    "\\u10f6", "\\u10f7", "\\u10f8", "\\u10f9", "\\u10fa", "\\u10fd", "\\u10fe", "\\u10ff",
    "\\u1e01", "\\u1e03", "\\u1e05", "\\u1e07", "\\u1e09", "\\u1e0b", "\\u1e0d", "\\u1e0f",
    "\\u1e11", "\\u1e13", "\\u1e15", "\\u1e17", "\\u1e19", "\\u1e1b", "\\u1e1d", "\\u1e1f",
    "\\u1e21", "\\u1e23", "\\u1e25", "\\u1e27", "\\u1e29", "\\u1e2b", "\\u1e2d", "\\u1e2f",
    "\\u1e31", "\\u1e33", "\\u1e35", "\\u1e37", "\\u1e39", "\\u1e3b", "\\u1e3d", "\\u1e3f",
    "\\u1e41", "\\u1e43", "\\u1e45", "\\u1e47", "\\u1e49", "\\u1e4b", "\\u1e4d", "\\u1e4f",
    "\\u1e51", "\\u1e53", "\\u1e55", "\\u1e57", "\\u1e59", "\\u1e5b", "\\u1e5d", "\\u1e5f",
    "\\u1e61", "\\u1e63", "\\u1e65", "\\u1e67", "\\u1e69", "\\u1e6b", "\\u1e6d", "\\u1e6f",
    "\\u1e71", "\\u1e73", "\\u1e75", "\\u1e77", "\\u1e79", "\\u1e7b", "\\u1e7d", "\\u1e7f",
    "\\u1e81", "\\u1e83", "\\u1e85", "\\u1e87", "\\u1e89", "\\u1e8b", "\\u1e8d", "\\u1e8f",
    "\\u1e91", "\\u1e93", "\\u1e95", "ß", "\\u1ea1", "\\u1ea3", "\\u1ea5", "\\u1ea7", "\\u1ea9",
    "\\u1eab", "\\u1ead", "\\u1eaf", "\\u1eb1", "\\u1eb3", "\\u1eb5", "\\u1eb7", "\\u1eb9",
    "\\u1ebb", "\\u1ebd", "\\u1ebf", "\\u1ec1", "\\u1ec3", "\\u1ec5", "\\u1ec7", "\\u1ec9",
    "\\u1ecb", "\\u1ecd", "\\u1ecf", "\\u1ed1", "\\u1ed3", "\\u1ed5", "\\u1ed7", "\\u1ed9",
    "\\u1edb", "\\u1edd", "\\u1edf", "\\u1ee1", "\\u1ee3", "\\u1ee5", "\\u1ee7", "\\u1ee9",
    "\\u1eeb", "\\u1eed", "\\u1eef", "\\u1ef1", "\\u1ef3", "\\u1ef5", "\\u1ef7", "\\u1ef9",
    "\\u1efb", "\\u1efd", "\\u1eff", "\\u1f00", "\\u1f01", "\\u1f02", "\\u1f03", "\\u1f04",
    "\\u1f05", "\\u1f06", "\\u1f07", "\\u1f10", "\\u1f11", "\\u1f12", "\\u1f13", "\\u1f14",
    "\\u1f15", "\\u1f20", "\\u1f21", "\\u1f22", "\\u1f23", "\\u1f24", "\\u1f25", "\\u1f26",
    "\\u1f27", "\\u1f30", "\\u1f31", "\\u1f32", "\\u1f33", "\\u1f34", "\\u1f35", "\\u1f36",
    "\\u1f37", "\\u1f40", "\\u1f41", "\\u1f42", "\\u1f43", "\\u1f44", "\\u1f45", "\\u1f51",
    "\\u1f53", "\\u1f55", "\\u1f57", "\\u1f60", "\\u1f61", "\\u1f62", "\\u1f63", "\\u1f64",
    "\\u1f65", "\\u1f66", "\\u1f67", "\\u1f80", "\\u1f81", "\\u1f82", "\\u1f83", "\\u1f84",
    "\\u1f85", "\\u1f86", "\\u1f87", "\\u1f90", "\\u1f91", "\\u1f92", "\\u1f93", "\\u1f94",
    "\\u1f95", "\\u1f96", "\\u1f97", "\\u1fa0", "\\u1fa1", "\\u1fa2", "\\u1fa3", "\\u1fa4",
    "\\u1fa5", "\\u1fa6", "\\u1fa7", "\\u1fb0", "\\u1fb1", "\\u1f70", "\\u1f71", "\\u1fb3",
    "\\u1f72", "\\u1f73", "\\u1f74", "\\u1f75", "\\u1fc3", "\\u1fd0", "\\u1fd1", "\\u1f76",
    "\\u1f77", "\\u1fe0", "\\u1fe1", "\\u1f7a", "\\u1f7b", "\\u1fe5", "\\u1f78", "\\u1f79",
    "\\u1f7c", "\\u1f7d", "\\u1ff3", "\\u03c9", "k", "å", "\\u214e", "\\u2170", "\\u2171",
    "\\u2172", "\\u2173", "\\u2174", "\\u2175", "\\u2176", "\\u2177", "\\u2178", "\\u2179",
    "\\u217a", "\\u217b", "\\u217c", "\\u217d", "\\u217e", "\\u217f", "\\u2184", "\\u24d0",
    "\\u24d1", "\\u24d2", "\\u24d3", "\\u24d4", "\\u24d5", "\\u24d6", "\\u24d7", "\\u24d8",
    "\\u24d9", "\\u24da", "\\u24db", "\\u24dc", "\\u24dd", "\\u24de", "\\u24df", "\\u24e0",
    "\\u24e1", "\\u24e2", "\\u24e3", "\\u24e4", "\\u24e5", "\\u24e6", "\\u24e7", "\\u24e8",
    "\\u24e9", "\\u2c30", "\\u2c31", "\\u2c32", "\\u2c33", "\\u2c34", "\\u2c35", "\\u2c36",
    "\\u2c37", "\\u2c38", "\\u2c39", "\\u2c3a", "\\u2c3b", "\\u2c3c", "\\u2c3d", "\\u2c3e",
    "\\u2c3f", "\\u2c40", "\\u2c41", "\\u2c42", "\\u2c43", "\\u2c44", "\\u2c45", "\\u2c46",
    "\\u2c47", "\\u2c48", "\\u2c49", "\\u2c4a", "\\u2c4b", "\\u2c4c", "\\u2c4d", "\\u2c4e",
    "\\u2c4f", "\\u2c50", "\\u2c51", "\\u2c52", "\\u2c53", "\\u2c54", "\\u2c55", "\\u2c56",
    "\\u2c57", "\\u2c58", "\\u2c59", "\\u2c5a", "\\u2c5b", "\\u2c5c", "\\u2c5d", "\\u2c5e",
    "\\u2c5f", "\\u2c61", "\\u026b", "\\u1d7d", "\\u027d", "\\u2c68", "\\u2c6a", "\\u2c6c",
    "\\u0251", "\\u0271", "\\u0250", "\\u0252", "\\u2c73", "\\u2c76", "\\u023f", "\\u0240",
    "\\u2c81", "\\u2c83", "\\u2c85", "\\u2c87", "\\u2c89", "\\u2c8b", "\\u2c8d", "\\u2c8f",
    "\\u2c91", "\\u2c93", "\\u2c95", "\\u2c97", "\\u2c99", "\\u2c9b", "\\u2c9d", "\\u2c9f",
    "\\u2ca1", "\\u2ca3", "\\u2ca5", "\\u2ca7", "\\u2ca9", "\\u2cab", "\\u2cad", "\\u2caf",
    "\\u2cb1", "\\u2cb3", "\\u2cb5", "\\u2cb7", "\\u2cb9", "\\u2cbb", "\\u2cbd", "\\u2cbf",
    "\\u2cc1", "\\u2cc3", "\\u2cc5", "\\u2cc7", "\\u2cc9", "\\u2ccb", "\\u2ccd", "\\u2ccf",
    "\\u2cd1", "\\u2cd3", "\\u2cd5", "\\u2cd7", "\\u2cd9", "\\u2cdb", "\\u2cdd", "\\u2cdf",
    "\\u2ce1", "\\u2ce3", "\\u2cec", "\\u2cee", "\\u2cf3", "\\ua641", "\\ua643", "\\ua645",
    "\\ua647", "\\ua649", "\\ua64b", "\\ua64d", "\\ua64f", "\\ua651", "\\ua653", "\\ua655",
    "\\ua657", "\\ua659", "\\ua65b", "\\ua65d", "\\ua65f", "\\ua661", "\\ua663", "\\ua665",
    "\\ua667", "\\ua669", "\\ua66b", "\\ua66d", "\\ua681", "\\ua683", "\\ua685", "\\ua687",
    "\\ua689", "\\ua68b", "\\ua68d", "\\ua68f", "\\ua691", "\\ua693", "\\ua695", "\\ua697",
    "\\ua699", "\\ua69b", "\\ua723", "\\ua725", "\\ua727", "\\ua729", "\\ua72b", "\\ua72d",
    "\\ua72f", "\\ua733", "\\ua735", "\\ua737", "\\ua739", "\\ua73b", "\\ua73d", "\\ua73f",
    "\\ua741", "\\ua743", "\\ua745", "\\ua747", "\\ua749", "\\ua74b", "\\ua74d", "\\ua74f",
    "\\ua751", "\\ua753", "\\ua755", "\\ua757", "\\ua759", "\\ua75b", "\\ua75d", "\\ua75f",
    "\\ua761", "\\ua763", "\\ua765", "\\ua767", "\\ua769", "\\ua76b", "\\ua76d", "\\ua76f",
    "\\ua77a", "\\ua77c", "\\u1d79", "\\ua77f", "\\ua781", "\\ua783", "\\ua785", "\\ua787",
    "\\ua78c", "\\u0265", "\\ua791", "\\ua793", "\\ua797", "\\ua799", "\\ua79b", "\\ua79d",
    "\\ua79f", "\\ua7a1", "\\ua7a3", "\\ua7a5", "\\ua7a7", "\\ua7a9", "\\u0266", "\\u025c",
    "\\u0261", "\\u026c", "\\u026a", "\\u029e", "\\u0287", "\\u029d", "\\uab53", "\\ua7b5",
    "\\ua7b7", "\\ua7b9", "\\ua7bb", "\\ua7bd", "\\ua7bf", "\\ua7c1", "\\ua7c3", "\\ua794",
    "\\u0282", "\\u1d8e", "\\ua7c8", "\\ua7ca", "\\u0264", "\\ua7cd", "\\ua7cf", "\\ua7d1",
    "\\ua7d3", "\\ua7d5", "\\ua7d7", "\\ua7d9", "\\ua7db", "\\u019b", "\\ua7f6", "\\uff41",
    "\\uff42", "\\uff43", "\\uff44", "\\uff45", "\\uff46", "\\uff47", "\\uff48", "\\uff49",
    "\\uff4a", "\\uff4b", "\\uff4c", "\\uff4d", "\\uff4e", "\\uff4f", "\\uff50", "\\uff51",
    "\\uff52", "\\uff53", "\\uff54", "\\uff55", "\\uff56", "\\uff57", "\\uff58", "\\uff59",
    "\\uff5a" >>

\* The same for the characters written as a surrogate pair, whose first
\* unit stays: for each first unit, the second units replaced and their
\* replacements.
CapitalPairs ==
  <<
     [high |-> "\\ud801",
      capital |->
        <<
          "\\udc00", "\\udc01", "\\udc02", "\\udc03", "\\udc04", "\\udc05", "\\udc06", "\\udc07",
          "\\udc08", "\\udc09", "\\udc0a", "\\udc0b", "\\udc0c", "\\udc0d", "\\udc0e", "\\udc0f",
          "\\udc10", "\\udc11", "\\udc12", "\\udc13", "\\udc14", "\\udc15", "\\udc16", "\\udc17",
          "\\udc18", "\\udc19", "\\udc1a", "\\udc1b", "\\udc1c", "\\udc1d", "\\udc1e", "\\udc1f",
          "\\udc20", "\\udc21", "\\udc22", "\\udc23", "\\udc24", "\\udc25", "\\udc26", "\\udc27",
          "\\udcb0", "\\udcb1", "\\udcb2", "\\udcb3", "\\udcb4", "\\udcb5", "\\udcb6", "\\udcb7",
          "\\udcb8", "\\udcb9", "\\udcba", "\\udcbb", "\\udcbc", "\\udcbd", "\\udcbe", "\\udcbf",
          "\\udcc0", "\\udcc1", "\\udcc2", "\\udcc3", "\\udcc4", "\\udcc5", "\\udcc6", "\\udcc7",
          "\\udcc8", "\\udcc9", "\\udcca", "\\udccb", "\\udccc", "\\udccd", "\\udcce", "\\udccf",
          "\\udcd0", "\\udcd1", "\\udcd2", "\\udcd3", "\\udd70", "\\udd71", "\\udd72", "\\udd73",
          "\\udd74", "\\udd75", "\\udd76", "\\udd77", "\\udd78", "\\udd79", "\\udd7a", "\\udd7c",
          "\\udd7d", "\\udd7e", "\\udd7f", "\\udd80", "\\udd81", "\\udd82", "\\udd83", "\\udd84",
          "\\udd85", "\\udd86", "\\udd87", "\\udd88", "\\udd89", "\\udd8a", "\\udd8c", "\\udd8d",
          "\\udd8e", "\\udd8f", "\\udd90", "\\udd91", "\\udd92", "\\udd94", "\\udd95" >>,
      small |->
        <<
          "\\udc28", "\\udc29", "\\udc2a", "\\udc2b", "\\udc2c", "\\udc2d", "\\udc2e", "\\udc2f",
          "\\udc30", "\\udc31", "\\udc32", "\\udc33", "\\udc34", "\\udc35", "\\udc36", "\\udc37",
          "\\udc38", "\\udc39", "\\udc3a", "\\udc3b", "\\udc3c", "\\udc3d", "\\udc3e", "\\udc3f",
          "\\udc40", "\\udc41", "\\udc42", "\\udc43", "\\udc44", "\\udc45", "\\udc46", "\\udc47",
          "\\udc48", "\\udc49", "\\udc4a", "\\udc4b", "\\udc4c", "\\udc4d", "\\udc4e", "\\udc4f",
          "\\udcd8", "\\udcd9", "\\udcda", "\\udcdb", "\\udcdc", "\\udcdd", "\\udcde", "\\udcdf",
          "\\udce0", "\\udce1", "\\udce2", "\\udce3", "\\udce4", "\\udce5", "\\udce6", "\\udce7",
          "\\udce8", "\\udce9", "\\udcea", "\\udceb", "\\udcec", "\\udced", "\\udcee", "\\udcef",
          "\\udcf0", "\\udcf1", "\\udcf2", "\\udcf3", "\\udcf4", "\\udcf5", "\\udcf6", "\\udcf7",
          "\\udcf8", "\\udcf9", "\\udcfa", "\\udcfb", "\\udd97", "\\udd98", "\\udd99", "\\udd9a",
          "\\udd9b", "\\udd9c", "\\udd9d", "\\udd9e", "\\udd9f", "\\udda0", "\\udda1", "\\udda3",
          "\\udda4", "\\udda5", "\\udda6", "\\udda7", "\\udda8", "\\udda9", "\\uddaa", "\\uddab",
          "\\uddac", "\\uddad", "\\uddae", "\\uddaf", "\\uddb0", "\\uddb1", "\\uddb3", "\\uddb4",
          "\\uddb5", "\\uddb6", "\\uddb7", "\\uddb8", "\\uddb9", "\\uddbb", "\\uddbc" >>],
     [high |-> "\\ud803",
      capital |->
        <<
          "\\udc80", "\\udc81", "\\udc82", "\\udc83", "\\udc84", "\\udc85", "\\udc86", "\\udc87",
          "\\udc88", "\\udc89", "\\udc8a", "\\udc8b", "\\udc8c", "\\udc8d", "\\udc8e", "\\udc8f",
          "\\udc90", "\\udc91", "\\udc92", "\\udc93", "\\udc94", "\\udc95", "\\udc96", "\\udc97",
          "\\udc98", "\\udc99", "\\udc9a", "\\udc9b", "\\udc9c", "\\udc9d", "\\udc9e", "\\udc9f",
          "\\udca0", "\\udca1", "\\udca2", "\\udca3", "\\udca4", "\\udca5", "\\udca6", "\\udca7",
          "\\udca8", "\\udca9", "\\udcaa", "\\udcab", "\\udcac", "\\udcad", "\\udcae", "\\udcaf",
          "\\udcb0", "\\udcb1", "\\udcb2", "\\udd50", "\\udd51", "\\udd52", "\\udd53", "\\udd54",
          "\\udd55", "\\udd56", "\\udd57", "\\udd58", "\\udd59", "\\udd5a", "\\udd5b", "\\udd5c",
          "\\udd5d", "\\udd5e", "\\udd5f", "\\udd60", "\\udd61", "\\udd62", "\\udd63", "\\udd64",
          "\\udd65" >>,
      small |->
        <<
          "\\udcc0", "\\udcc1", "\\udcc2", "\\udcc3", "\\udcc4", "\\udcc5", "\\udcc6", "\\udcc7",
          "\\udcc8", "\\udcc9", "\\udcca", "\\udccb", "\\udccc", "\\udccd", "\\udcce", "\\udccf",
          "\\udcd0", "\\udcd1", "\\udcd2", "\\udcd3", "\\udcd4", "\\udcd5", "\\udcd6", "\\udcd7",
          "\\udcd8", "\\udcd9", "\\udcda", "\\udcdb", "\\udcdc", "\\udcdd", "\\udcde", "\\udcdf",
          "\\udce0", "\\udce1", "\\udce2", "\\udce3", "\\udce4", "\\udce5", "\\udce6", "\\udce7",
          "\\udce8", "\\udce9", "\\udcea", "\\udceb", "\\udcec", "\\udced", "\\udcee", "\\udcef",
          "\\udcf0", "\\udcf1", "\\udcf2", "\\udd70", "\\udd71", "\\udd72", "\\udd73", "\\udd74",
          "\\udd75", "\\udd76", "\\udd77", "\\udd78", "\\udd79", "\\udd7a", "\\udd7b", "\\udd7c",
          "\\udd7d", "\\udd7e", "\\udd7f", "\\udd80", "\\udd81", "\\udd82", "\\udd83", "\\udd84",
          "\\udd85" >>],
     [high |-> "\\ud806",
      capital |->
        <<
          "\\udca0", "\\udca1", "\\udca2", "\\udca3", "\\udca4", "\\udca5", "\\udca6", "\\udca7",
          "\\udca8", "\\udca9", "\\udcaa", "\\udcab", "\\udcac", "\\udcad", "\\udcae", "\\udcaf",
          "\\udcb0", "\\udcb1", "\\udcb2", "\\udcb3", "\\udcb4", "\\udcb5", "\\udcb6", "\\udcb7",
          "\\udcb8", "\\udcb9", "\\udcba", "\\udcbb", "\\udcbc", "\\udcbd", "\\udcbe", "\\udcbf" >>,
      small |->
        <<
          "\\udcc0", "\\udcc1", "\\udcc2", "\\udcc3", "\\udcc4", "\\udcc5", "\\udcc6", "\\udcc7",
          "\\udcc8", "\\udcc9", "\\udcca", "\\udccb", "\\udccc", "\\udccd", "\\udcce", "\\udccf",
          "\\udcd0", "\\udcd1", "\\udcd2", "\\udcd3", "\\udcd4", "\\udcd5", "\\udcd6", "\\udcd7",
          "\\udcd8", "\\udcd9", "\\udcda", "\\udcdb", "\\udcdc", "\\udcdd", "\\udcde", "\\udcdf" >>],
     [high |-> "\\ud81b",
      capital |->
        <<
          "\\ude40", "\\ude41", "\\ude42", "\\ude43", "\\ude44", "\\ude45", "\\ude46", "\\ude47",
          "\\ude48", "\\ude49", "\\ude4a", "\\ude4b", "\\ude4c", "\\ude4d", "\\ude4e", "\\ude4f",
          "\\ude50", "\\ude51", "\\ude52", "\\ude53", "\\ude54", "\\ude55", "\\ude56", "\\ude57",
          "\\ude58", "\\ude59", "\\ude5a", "\\ude5b", "\\ude5c", "\\ude5d", "\\ude5e", "\\ude5f",
          "\\udea0", "\\udea1", "\\udea2", "\\udea3", "\\udea4", "\\udea5", "\\udea6", "\\udea7",
          "\\udea8", "\\udea9", "\\udeaa", "\\udeab", "\\udeac", "\\udead", "\\udeae", "\\udeaf",
          "\\udeb0", "\\udeb1", "\\udeb2", "\\udeb3", "\\udeb4", "\\udeb5", "\\udeb6", "\\udeb7",
          "\\udeb8" >>,
      small |->
        <<
          "\\ude60", "\\ude61", "\\ude62", "\\ude63", "\\ude64", "\\ude65", "\\ude66", "\\ude67",
          "\\ude68", "\\ude69", "\\ude6a", "\\ude6b", "\\ude6c", "\\ude6d", "\\ude6e", "\\ude6f",
          "\\ude70", "\\ude71", "\\ude72", "\\ude73", "\\ude74", "\\ude75", "\\ude76", "\\ude77",
          "\\ude78", "\\ude79", "\\ude7a", "\\ude7b", "\\ude7c", "\\ude7d", "\\ude7e", "\\ude7f",
          "\\udebb", "\\udebc", "\\udebd", "\\udebe", "\\udebf", "\\udec0", "\\udec1", "\\udec2",
          "\\udec3", "\\udec4", "\\udec5", "\\udec6", "\\udec7", "\\udec8", "\\udec9", "\\udeca",
          "\\udecb", "\\udecc", "\\udecd", "\\udece", "\\udecf", "\\uded0", "\\uded1", "\\uded2",
          "\\uded3" >>],
     [high |-> "\\ud83a",
      capital |->
        <<
          "\\udd00", "\\udd01", "\\udd02", "\\udd03", "\\udd04", "\\udd05", "\\udd06", "\\udd07",
          "\\udd08", "\\udd09", "\\udd0a", "\\udd0b", "\\udd0c", "\\udd0d", "\\udd0e", "\\udd0f",
          "\\udd10", "\\udd11", "\\udd12", "\\udd13", "\\udd14", "\\udd15", "\\udd16", "\\udd17",
          "\\udd18", "\\udd19", "\\udd1a", "\\udd1b", "\\udd1c", "\\udd1d", "\\udd1e", "\\udd1f",
          "\\udd20", "\\udd21" >>,
      small |->
        <<
          "\\udd22", "\\udd23", "\\udd24", "\\udd25", "\\udd26", "\\udd27", "\\udd28", "\\udd29",
          "\\udd2a", "\\udd2b", "\\udd2c", "\\udd2d", "\\udd2e", "\\udd2f", "\\udd30", "\\udd31",
          "\\udd32", "\\udd33", "\\udd34", "\\udd35", "\\udd36", "\\udd37", "\\udd38", "\\udd39",
          "\\udd3a", "\\udd3b", "\\udd3c", "\\udd3d", "\\udd3e", "\\udd3f", "\\udd40", "\\udd41",
          "\\udd42", "\\udd43" >>] >>

\* Case_Ignorable: the code units, and the surrogate pairs by first unit.
CaseIgnorable ==
  {
    "'", ".", ":", "^", "\\u0060", "¨", "\\u00ad", "¯", "´", "·", "¸", "\\u02b0", "\\u02b1",
    "\\u02b2", "\\u02b3", "\\u02b4", "\\u02b5", "\\u02b6", "\\u02b7", "\\u02b8", "\\u02b9",
    "\\u02ba", "\\u02bb", "\\u02bc", "\\u02bd", "\\u02be", "\\u02bf", "\\u02c0", "\\u02c1",
    "\\u02c2", "\\u02c3", "\\u02c4", "\\u02c5", "\\u02c6", "\\u02c7", "\\u02c8", "\\u02c9",
    "\\u02ca", "\\u02cb", "\\u02cc", "\\u02cd", "\\u02ce", "\\u02cf", "\\u02d0", "\\u02d1",
    "\\u02d2", "\\u02d3", "\\u02d4", "\\u02d5", "\\u02d6", "\\u02d7", "\\u02d8", "\\u02d9",
    "\\u02da", "\\u02db", "\\u02dc", "\\u02dd", "\\u02de", "\\u02df", "\\u02e0", "\\u02e1",
    "\\u02e2", "\\u02e3", "\\u02e4", "\\u02e5", "\\u02e6", "\\u02e7", "\\u02e8", "\\u02e9",
    "\\u02ea", "\\u02eb", "\\u02ec", "\\u02ed", "\\u02ee", "\\u02ef", "\\u02f0", "\\u02f1",
    "\\u02f2", "\\u02f3", "\\u02f4", "\\u02f5", "\\u02f6", "\\u02f7", "\\u02f8", "\\u02f9",
    "\\u02fa", "\\u02fb", "\\u02fc", "\\u02fd", "\\u02fe", "\\u02ff", "\\u0300", "\\u0301",
    "\\u0302", "\\u0303", "\\u0304", "\\u0305", "\\u0306", "\\u0307", "\\u0308", "\\u0309",
    "\\u030a", "\\u030b", "\\u030c", "\\u030d", "\\u030e", "\\u030f", "\\u0310", "\\u0311",
    "\\u0312", "\\u0313", "\\u0314", "\\u0315", "\\u0316", "\\u0317", "\\u0318", "\\u0319",
    "\\u031a", "\\u031b", "\\u031c", "\\u031d", "\\u031e", "\\u031f", "\\u0320", "\\u0321",
    "\\u0322", "\\u0323", "\\u0324", "\\u0325", "\\u0326", "\\u0327", "\\u0328", "\\u0329",
    "\\u032a", "\\u032b", "\\u032c", "\\u032d", "\\u032e", "\\u032f", "\\u0330", "\\u0331",
    "\\u0332", "\\u0333", "\\u0334", "\\u0335", "\\u0336", "\\u0337", "\\u0338", "\\u0339",
    "\\u033a", "\\u033b", "\\u033c", "\\u033d", "\\u033e", "\\u033f", "\\u0340", "\\u0341",
    "\\u0342", "\\u0343", "\\u0344", "\\u0345", "\\u0346", "\\u0347", "\\u0348", "\\u0349",
    "\\u034a", "\\u034b", "\\u034c", "\\u034d", "\\u034e", "\\u034f", "\\u0350", "\\u0351",
    "\\u0352", "\\u0353", "\\u0354", "\\u0355", "\\u0356", "\\u0357", "\\u0358", "\\u0359",
    "\\u035a", "\\u035b", "\\u035c", "\\u035d", "\\u035e", "\\u035f", "\\u0360", "\\u0361",
    "\\u0362", "\\u0363", "\\u0364", "\\u0365", "\\u0366", "\\u0367", "\\u0368", "\\u0369",
    "\\u036a", "\\u036b", "\\u036c", "\\u036d", "\\u036e", "\\u036f", "\\u0374", "\\u0375",
    "\\u037a", "\\u0384", "\\u0385", "\\u0387", "\\u0483", "\\u0484", "\\u0485", "\\u0486",
    "\\u0487", "\\u0488", "\\u0489", "\\u0559", "\\u055f", "\\u0591", "\\u0592", "\\u0593",
    "\\u0594", "\\u0595", "\\u0596", "\\u0597", "\\u0598", "\\u0599", "\\u059a", "\\u059b",
    "\\u059c", "\\u059d", "\\u059e", "\\u059f", "\\u05a0", "\\u05a1", "\\u05a2", "\\u05a3",
    "\\u05a4", "\\u05a5", "\\u05a6", "\\u05a7", "\\u05a8", "\\u05a9", "\\u05aa", "\\u05ab",
    "\\u05ac", "\\u05ad", "\\u05ae", "\\u05af", "\\u05b0", "\\u05b1", "\\u05b2", "\\u05b3",
    "\\u05b4", "\\u05b5", "\\u05b6", "\\u05b7", "\\u05b8", "\\u05b9", "\\u05ba", "\\u05bb",
    "\\u05bc", "\\u05bd", "\\u05bf", "\\u05c1", "\\u05c2", "\\u05c4", "\\u05c5", "\\u05c7",
    "\\u05f4", "\\u0600", "\\u0601", "\\u0602", "\\u0603", "\\u0604", "\\u0605", "\\u0610",
    "\\u0611", "\\u0612", "\\u0613", "\\u0614", "\\u0615", "\\u0616", "\\u0617", "\\u0618",
    "\\u0619", "\\u061a", "\\u061c", "\\u0640", "\\u064b", "\\u064c", "\\u064d", "\\u064e",
    "\\u064f", "\\u0650", "\\u0651", "\\u0652", "\\u0653", "\\u0654", "\\u0655", "\\u0656",
    "\\u0657", "\\u0658", "\\u0659", "\\u065a", "\\u065b", "\\u065c", "\\u065d", "\\u065e",
    "\\u065f", "\\u0670", "\\u06d6", "\\u06d7", "\\u06d8", "\\u06d9", "\\u06da", "\\u06db",
    "\\u06dc", "\\u06dd", "\\u06df", "\\u06e0", "\\u06e1", "\\u06e2", "\\u06e3", "\\u06e4",
    "\\u06e5", "\\u06e6", "\\u06e7", "\\u06e8", "\\u06ea", "\\u06eb", "\\u06ec", "\\u06ed",
    "\\u070f", "\\u0711", "\\u0730", "\\u0731", "\\u0732", "\\u0733", "\\u0734", "\\u0735",
    "\\u0736", "\\u0737", "\\u0738", "\\u0739", "\\u073a", "\\u073b", "\\u073c", "\\u073d",
    "\\u073e", "\\u073f", "\\u0740", "\\u0741", "\\u0742", "\\u0743", "\\u0744", "\\u0745",
    "\\u0746", "\\u0747", "\\u0748", "\\u0749", "\\u074a", "\\u07a6", "\\u07a7", "\\u07a8",
    "\\u07a9", "\\u07aa", "\\u07ab", "\\u07ac", "\\u07ad", "\\u07ae", "\\u07af", "\\u07b0",
    "\\u07eb", "\\u07ec", "\\u07ed", "\\u07ee", "\\u07ef", "\\u07f0", "\\u07f1", "\\u07f2",
    "\\u07f3", "\\u07f4", "\\u07f5", "\\u07fa", "\\u07fd", "\\u0816", "\\u0817", "\\u0818",
    "\\u0819", "\\u081a", "\\u081b", "\\u081c", "\\u081d", "\\u081e", "\\u081f", "\\u0820",
    "\\u0821", "\\u0822", "\\u0823", "\\u0824", "\\u0825", "\\u0826", "\\u0827", "\\u0828",
    "\\u0829", "\\u082a", "\\u082b", "\\u082c", "\\u082d", "\\u0859", "\\u085a", "\\u085b",
    "\\u0888", "\\u0890", "\\u0891", "\\u0897", "\\u0898", "\\u0899", "\\u089a", "\\u089b",
    "\\u089c", "\\u089d", "\\u089e", "\\u089f", "\\u08c9", "\\u08ca", "\\u08cb", "\\u08cc",
    "\\u08cd", "\\u08ce", "\\u08cf", "\\u08d0", "\\u08d1", "\\u08d2", "\\u08d3", "\\u08d4",
    "\\u08d5", "\\u08d6", "\\u08d7", "\\u08d8", "\\u08d9", "\\u08da", "\\u08db", "\\u08dc",
    "\\u08dd", "\\u08de", "\\u08df", "\\u08e0", "\\u08e1", "\\u08e2", "\\u08e3", "\\u08e4",
    "\\u08e5", "\\u08e6", "\\u08e7", "\\u08e8", "\\u08e9", "\\u08ea", "\\u08eb", "\\u08ec",
    "\\u08ed", "\\u08ee", "\\u08ef", "\\u08f0", "\\u08f1", "\\u08f2", "\\u08f3", "\\u08f4",
    "\\u08f5", "\\u08f6", "\\u08f7", "\\u08f8", "\\u08f9", "\\u08fa", "\\u08fb", "\\u08fc",
    "\\u08fd", "\\u08fe", "\\u08ff", "\\u0900", "\\u0901", "\\u0902", "\\u093a", "\\u093c",
    "\\u0941", "\\u0942", "\\u0943", "\\u0944", "\\u0945", "\\u0946", "\\u0947", "\\u0948",
    "\\u094d", "\\u0951", "\\u0952", "\\u0953", "\\u0954", "\\u0955", "\\u0956", "\\u0957",
    "\\u0962", "\\u0963", "\\u0971", "\\u0981", "\\u09bc", "\\u09c1", "\\u09c2", "\\u09c3",
    "\\u09c4", "\\u09cd", "\\u09e2", "\\u09e3", "\\u09fe", "\\u0a01", "\\u0a02", "\\u0a3c",
    "\\u0a41", "\\u0a42", "\\u0a47", "\\u0a48", "\\u0a4b", "\\u0a4c", "\\u0a4d", "\\u0a51",
    "\\u0a70", "\\u0a71", "\\u0a75", "\\u0a81", "\\u0a82", "\\u0abc", "\\u0ac1", "\\u0ac2",
    "\\u0ac3", "\\u0ac4", "\\u0ac5", "\\u0ac7", "\\u0ac8", "\\u0acd", "\\u0ae2", "\\u0ae3",
    "\\u0afa", "\\u0afb", "\\u0afc", "\\u0afd", "\\u0afe", "\\u0aff", "\\u0b01", "\\u0b3c",
    "\\u0b3f", "\\u0b41", "\\u0b42", "\\u0b43", "\\u0b44", "\\u0b4d", "\\u0b55", "\\u0b56",
    "\\u0b62", "\\u0b63", "\\u0b82", "\\u0bc0", "\\u0bcd", "\\u0c00", "\\u0c04", "\\u0c3c",
    "\\u0c3e", "\\u0c3f", "\\u0c40", "\\u0c46", "\\u0c47", "\\u0c48", "\\u0c4a", "\\u0c4b",
    "\\u0c4c", "\\u0c4d", "\\u0c55", "\\u0c56", "\\u0c62", "\\u0c63", "\\u0c81", "\\u0cbc",
    "\\u0cbf", "\\u0cc6", "\\u0ccc", "\\u0ccd", "\\u0ce2", "\\u0ce3", "\\u0d00", "\\u0d01",
    "\\u0d3b", "\\u0d3c", "\\u0d41", "\\u0d42", "\\u0d43", "\\u0d44", "\\u0d4d", "\\u0d62",
    "\\u0d63", "\\u0d81", "\\u0dca", "\\u0dd2", "\\u0dd3", "\\u0dd4", "\\u0dd6", "\\u0e31",
    "\\u0e34", "\\u0e35", "\\u0e36", "\\u0e37", "\\u0e38", "\\u0e39", "\\u0e3a", "\\u0e46",
    "\\u0e47", "\\u0e48", "\\u0e49", "\\u0e4a", "\\u0e4b", "\\u0e4c", "\\u0e4d", "\\u0e4e",
    "\\u0eb1", "\\u0eb4", "\\u0eb5", "\\u0eb6", "\\u0eb7", "\\u0eb8", "\\u0eb9", "\\u0eba",
    "\\u0ebb", "\\u0ebc", "\\u0ec6", "\\u0ec8", "\\u0ec9", "\\u0eca", "\\u0ecb", "\\u0ecc",
    "\\u0ecd", "\\u0ece", "\\u0f18", "\\u0f19", "\\u0f35", "\\u0f37", "\\u0f39", "\\u0f71",
    "\\u0f72", "\\u0f73", "\\u0f74", "\\u0f75", "\\u0f76", "\\u0f77", "\\u0f78", "\\u0f79",
    "\\u0f7a", "\\u0f7b", "\\u0f7c", "\\u0f7d", "\\u0f7e", "\\u0f80", "\\u0f81", "\\u0f82",
    "\\u0f83", "\\u0f84", "\\u0f86", "\\u0f87", "\\u0f8d", "\\u0f8e", "\\u0f8f", "\\u0f90",
    "\\u0f91", "\\u0f92", "\\u0f93", "\\u0f94", "\\u0f95", "\\u0f96", "\\u0f97", "\\u0f99",
    "\\u0f9a", "\\u0f9b", "\\u0f9c", "\\u0f9d", "\\u0f9e", "\\u0f9f", "\\u0fa0", "\\u0fa1",
    "\\u0fa2", "\\u0fa3", "\\u0fa4", "\\u0fa5", "\\u0fa6", "\\u0fa7", "\\u0fa8", "\\u0fa9",
    "\\u0faa", "\\u0fab", "\\u0fac", "\\u0fad", "\\u0fae", "\\u0faf", "\\u0fb0", "\\u0fb1",
    "\\u0fb2", "\\u0fb3", "\\u0fb4", "\\u0fb5", "\\u0fb6", "\\u0fb7", "\\u0fb8", "\\u0fb9",
    "\\u0fba", "\\u0fbb", "\\u0fbc", "\\u0fc6", "\\u102d", "\\u102e", "\\u102f", "\\u1030",
    "\\u1032", "\\u1033", "\\u1034", "\\u1035", "\\u1036", "\\u1037", "\\u1039", "\\u103a",
    "\\u103d", "\\u103e", "\\u1058", "\\u1059", "\\u105e", "\\u105f", "\\u1060", "\\u1071",
    "\\u1072", "\\u1073", "\\u1074", "\\u1082", "\\u1085", "\\u1086", "\\u108d", "\\u109d",
    "\\u10fc", "\\u135d", "\\u135e", "\\u135f", "\\u1712", "\\u1713", "\\u1714", "\\u1732",
    "\\u1733", "\\u1752", "\\u1753", "\\u1772", "\\u1773", "\\u17b4", "\\u17b5", "\\u17b7",
    "\\u17b8", "\\u17b9", "\\u17ba", "\\u17bb", "\\u17bc", "\\u17bd", "\\u17c6", "\\u17c9",
    "\\u17ca", "\\u17cb", "\\u17cc", "\\u17cd", "\\u17ce", "\\u17cf", "\\u17d0", "\\u17d1",
    "\\u17d2", "\\u17d3", "\\u17d7", "\\u17dd", "\\u180b", "\\u180c", "\\u180d", "\\u180e",
    "\\u180f", "\\u1843", "\\u1885", "\\u1886", "\\u18a9", "\\u1920", "\\u1921", "\\u1922",
    "\\u1927", "\\u1928", "\\u1932", "\\u1939", "\\u193a", "\\u193b", "\\u1a17", "\\u1a18",
    "\\u1a1b", "\\u1a56", "\\u1a58", "\\u1a59", "\\u1a5a", "\\u1a5b", "\\u1a5c", "\\u1a5d",
    "\\u1a5e", "\\u1a60", "\\u1a62", "\\u1a65", "\\u1a66", "\\u1a67", "\\u1a68", "\\u1a69",
    "\\u1a6a", "\\u1a6b", "\\u1a6c", "\\u1a73", "\\u1a74", "\\u1a75", "\\u1a76", "\\u1a77",
    "\\u1a78", "\\u1a79", "\\u1a7a", "\\u1a7b", "\\u1a7c", "\\u1a7f", "\\u1aa7", "\\u1ab0",
    "\\u1ab1", "\\u1ab2", "\\u1ab3", "\\u1ab4", "\\u1ab5", "\\u1ab6", "\\u1ab7", "\\u1ab8",
    "\\u1ab9", "\\u1aba", "\\u1abb", "\\u1abc", "\\u1abd", "\\u1abe", "\\u1abf", "\\u1ac0",
    "\\u1ac1", "\\u1ac2", "\\u1ac3", "\\u1ac4", "\\u1ac5", "\\u1ac6", "\\u1ac7", "\\u1ac8",
    "\\u1ac9", "\\u1aca", "\\u1acb", "\\u1acc", "\\u1acd", "\\u1ace", "\\u1acf", "\\u1ad0",
    "\\u1ad1", "\\u1ad2", "\\u1ad3", "\\u1ad4", "\\u1ad5", "\\u1ad6", "\\u1ad7", "\\u1ad8",
    "\\u1ad9", "\\u1ada", "\\u1adb", "\\u1adc", "\\u1add", "\\u1ae0", "\\u1ae1", "\\u1ae2",
    "\\u1ae3", "\\u1ae4", "\\u1ae5", "\\u1ae6", "\\u1ae7", "\\u1ae8", "\\u1ae9", "\\u1aea",
    "\\u1aeb", "\\u1b00", "\\u1b01", "\\u1b02", "\\u1b03", "\\u1b34", "\\u1b36", "\\u1b37",
    "\\u1b38", "\\u1b39", "\\u1b3a", "\\u1b3c", "\\u1b42", "\\u1b6b", "\\u1b6c", "\\u1b6d",
    "\\u1b6e", "\\u1b6f", "\\u1b70", "\\u1b71", "\\u1b72", "\\u1b73", "\\u1b80", "\\u1b81",
    "\\u1ba2", "\\u1ba3", "\\u1ba4", "\\u1ba5", "\\u1ba8", "\\u1ba9", "\\u1bab", "\\u1bac",
    "\\u1bad", "\\u1be6", "\\u1be8", "\\u1be9", "\\u1bed", "\\u1bef", "\\u1bf0", "\\u1bf1",
    "\\u1c2c", "\\u1c2d", "\\u1c2e", "\\u1c2f", "\\u1c30", "\\u1c31", "\\u1c32", "\\u1c33",
    "\\u1c36", "\\u1c37", "\\u1c78", "\\u1c79", "\\u1c7a", "\\u1c7b", "\\u1c7c", "\\u1c7d",
    "\\u1cd0", "\\u1cd1", "\\u1cd2", "\\u1cd4", "\\u1cd5", "\\u1cd6", "\\u1cd7", "\\u1cd8",
    "\\u1cd9", "\\u1cda", "\\u1cdb", "\\u1cdc", "\\u1cdd", "\\u1cde", "\\u1cdf", "\\u1ce0",
    "\\u1ce2", "\\u1ce3", "\\u1ce4", "\\u1ce5", "\\u1ce6", "\\u1ce7", "\\u1ce8", "\\u1ced",
    "\\u1cf4", "\\u1cf8", "\\u1cf9", "\\u1d2c", "\\u1d2d", "\\u1d2e", "\\u1d2f", "\\u1d30",
    "\\u1d31", "\\u1d32", "\\u1d33", "\\u1d34", "\\u1d35", "\\u1d36", "\\u1d37", "\\u1d38",
    "\\u1d39", "\\u1d3a", "\\u1d3b", "\\u1d3c", "\\u1d3d", "\\u1d3e", "\\u1d3f", "\\u1d40",
    "\\u1d41", "\\u1d42", "\\u1d43", "\\u1d44", "\\u1d45", "\\u1d46", "\\u1d47", "\\u1d48",
    "\\u1d49", "\\u1d4a", "\\u1d4b", "\\u1d4c", "\\u1d4d", "\\u1d4e", "\\u1d4f", "\\u1d50",
    "\\u1d51", "\\u1d52", "\\u1d53", "\\u1d54", "\\u1d55", "\\u1d56", "\\u1d57", "\\u1d58",
    "\\u1d59", "\\u1d5a", "\\u1d5b", "\\u1d5c", "\\u1d5d", "\\u1d5e", "\\u1d5f", "\\u1d60",
    "\\u1d61", "\\u1d62", "\\u1d63", "\\u1d64", "\\u1d65", "\\u1d66", "\\u1d67", "\\u1d68",
    "\\u1d69", "\\u1d6a", "\\u1d78", "\\u1d9b", "\\u1d9c", "\\u1d9d", "\\u1d9e", "\\u1d9f",
    "\\u1da0", "\\u1da1", "\\u1da2", "\\u1da3", "\\u1da4", "\\u1da5", "\\u1da6", "\\u1da7",
    "\\u1da8", "\\u1da9", "\\u1daa", "\\u1dab", "\\u1dac", "\\u1dad", "\\u1dae", "\\u1daf",
    "\\u1db0", "\\u1db1", "\\u1db2", "\\u1db3", "\\u1db4", "\\u1db5", "\\u1db6", "\\u1db7",
    "\\u1db8", "\\u1db9", "\\u1dba", "\\u1dbb", "\\u1dbc", "\\u1dbd", "\\u1dbe", "\\u1dbf",
    "\\u1dc0", "\\u1dc1", "\\u1dc2", "\\u1dc3", "\\u1dc4", "\\u1dc5", "\\u1dc6", "\\u1dc7",
    "\\u1dc8", "\\u1dc9", "\\u1dca", "\\u1dcb", "\\u1dcc", "\\u1dcd", "\\u1dce", "\\u1dcf",
    "\\u1dd0", "\\u1dd1", "\\u1dd2", "\\u1dd3", "\\u1dd4", "\\u1dd5", "\\u1dd6", "\\u1dd7",
    "\\u1dd8", "\\u1dd9", "\\u1dda", "\\u1ddb", "\\u1ddc", "\\u1ddd", "\\u1dde", "\\u1ddf",
    "\\u1de0", "\\u1de1", "\\u1de2", "\\u1de3", "\\u1de4", "\\u1de5", "\\u1de6", "\\u1de7",
    "\\u1de8", "\\u1de9", "\\u1dea", "\\u1deb", "\\u1dec", "\\u1ded", "\\u1dee", "\\u1def",
    "\\u1df0", "\\u1df1", "\\u1df2", "\\u1df3", "\\u1df4", "\\u1df5", "\\u1df6", "\\u1df7",
    "\\u1df8", "\\u1df9", "\\u1dfa", "\\u1dfb", "\\u1dfc", "\\u1dfd", "\\u1dfe", "\\u1dff",
    "\\u1fbd", "\\u1fbf", "\\u1fc0", "\\u1fc1", "\\u1fcd", "\\u1fce", "\\u1fcf", "\\u1fdd",
    "\\u1fde", "\\u1fdf", "\\u1fed", "\\u1fee", "\\u1fef", "\\u1ffd", "\\u1ffe", "\\u200b",
    "\\u200c", "\\u200d", "\\u200e", "\\u200f", "\\u2018", "\\u2019", "\\u2024", "\\u2027",
    "\\u202a", "\\u202b", "\\u202c", "\\u202d", "\\u202e", "\\u2060", "\\u2061", "\\u2062",
    "\\u2063", "\\u2064", "\\u2066", "\\u2067", "\\u2068", "\\u2069", "\\u206a", "\\u206b",
    "\\u206c", "\\u206d", "\\u206e", "\\u206f", "\\u2071", "\\u207f", "\\u2090", "\\u2091",
    "\\u2092", "\\u2093", "\\u2094", "\\u2095", "\\u2096", "\\u2097", "\\u2098", "\\u2099",
    "\\u209a", "\\u209b", "\\u209c", "\\u20d0", "\\u20d1", "\\u20d2", "\\u20d3", "\\u20d4",
    "\\u20d5", "\\u20d6", "\\u20d7", "\\u20d8", "\\u20d9", "\\u20da", "\\u20db", "\\u20dc",
    "\\u20dd", "\\u20de", "\\u20df", "\\u20e0", "\\u20e1", "\\u20e2", "\\u20e3", "\\u20e4",
    "\\u20e5", "\\u20e6", "\\u20e7", "\\u20e8", "\\u20e9", "\\u20ea", "\\u20eb", "\\u20ec",
    "\\u20ed", "\\u20ee", "\\u20ef", "\\u20f0", "\\u2c7c", "\\u2c7d", "\\u2cef", "\\u2cf0",
    "\\u2cf1", "\\u2d6f", "\\u2d7f", "\\u2de0", "\\u2de1", "\\u2de2", "\\u2de3", "\\u2de4",
    "\\u2de5", "\\u2de6", "\\u2de7", "\\u2de8", "\\u2de9", "\\u2dea", "\\u2deb", "\\u2dec",
    "\\u2ded", "\\u2dee", "\\u2def", "\\u2df0", "\\u2df1", "\\u2df2", "\\u2df3", "\\u2df4",
    "\\u2df5", "\\u2df6", "\\u2df7", "\\u2df8", "\\u2df9", "\\u2dfa", "\\u2dfb", "\\u2dfc",
    "\\u2dfd", "\\u2dfe", "\\u2dff", "\\u2e2f", "\\u3005", "\\u302a", "\\u302b", "\\u302c",
    "\\u302d", "\\u3031", "\\u3032", "\\u3033", "\\u3034", "\\u3035", "\\u303b", "\\u3099",
    "\\u309a", "\\u309b", "\\u309c", "\\u309d", "\\u309e", "\\u30fc", "\\u30fd", "\\u30fe",
    "\\ua015", "\\ua4f8", "\\ua4f9", "\\ua4fa", "\\ua4fb", "\\ua4fc", "\\ua4fd", "\\ua60c",
    "\\ua66f", "\\ua670", "\\ua671", "\\ua672", "\\ua674", "\\ua675", "\\ua676", "\\ua677",
    "\\ua678", "\\ua679", "\\ua67a", "\\ua67b", "\\ua67c", "\\ua67d", "\\ua67f", "\\ua69c",
    "\\ua69d", "\\ua69e", "\\ua69f", "\\ua6f0", "\\ua6f1", "\\ua700", "\\ua701", "\\ua702",
    "\\ua703", "\\ua704", "\\ua705", "\\ua706", "\\ua707", "\\ua708", "\\ua709", "\\ua70a",
    "\\ua70b", "\\ua70c", "\\ua70d", "\\ua70e", "\\ua70f", "\\ua710", "\\ua711", "\\ua712",
    "\\ua713", "\\ua714", "\\ua715", "\\ua716", "\\ua717", "\\ua718", "\\ua719", "\\ua71a",
    "\\ua71b", "\\ua71c", "\\ua71d", "\\ua71e", "\\ua71f", "\\ua720", "\\ua721", "\\ua770",
    "\\ua788", "\\ua789", "\\ua78a", "\\ua7f1", "\\ua7f2", "\\ua7f3", "\\ua7f4", "\\ua7f8",
    "\\ua7f9", "\\ua802", "\\ua806", "\\ua80b", "\\ua825", "\\ua826", "\\ua82c", "\\ua8c4",
    "\\ua8c5", "\\ua8e0", "\\ua8e1", "\\ua8e2", "\\ua8e3", "\\ua8e4", "\\ua8e5", "\\ua8e6",
    "\\ua8e7", "\\ua8e8", "\\ua8e9", "\\ua8ea", "\\ua8eb", "\\ua8ec", "\\ua8ed", "\\ua8ee",
    "\\ua8ef", "\\ua8f0", "\\ua8f1", "\\ua8ff", "\\ua926", "\\ua927", "\\ua928", "\\ua929",
    "\\ua92a", "\\ua92b", "\\ua92c", "\\ua92d", "\\ua947", "\\ua948", "\\ua949", "\\ua94a",
    "\\ua94b", "\\ua94c", "\\ua94d", "\\ua94e", "\\ua94f", "\\ua950", "\\ua951", "\\ua980",
    "\\ua981", "\\ua982", "\\ua9b3", "\\ua9b6", "\\ua9b7", "\\ua9b8", "\\ua9b9", "\\ua9bc",
    "\\ua9bd", "\\ua9cf", "\\ua9e5", "\\ua9e6", "\\uaa29", "\\uaa2a", "\\uaa2b", "\\uaa2c",
    "\\uaa2d", "\\uaa2e", "\\uaa31", "\\uaa32", "\\uaa35", "\\uaa36", "\\uaa43", "\\uaa4c",
    "\\uaa70", "\\uaa7c", "\\uaab0", "\\uaab2", "\\uaab3", "\\uaab4", "\\uaab7", "\\uaab8",
    "\\uaabe", "\\uaabf", "\\uaac1", "\\uaadd", "\\uaaec", "\\uaaed", "\\uaaf3", "\\uaaf4",
    "\\uaaf6", "\\uab5b", "\\uab5c", "\\uab5d", "\\uab5e", "\\uab5f", "\\uab69", "\\uab6a",
    "\\uab6b", "\\uabe5", "\\uabe8", "\\uabed", "\\ufb1e", "\\ufbb2", "\\ufbb3", "\\ufbb4",
    "\\ufbb5", "\\ufbb6", "\\ufbb7", "\\ufbb8", "\\ufbb9", "\\ufbba", "\\ufbbb", "\\ufbbc",
    "\\ufbbd", "\\ufbbe", "\\ufbbf", "\\ufbc0", "\\ufbc1", "\\ufbc2", "\\ufe00", "\\ufe01",
    "\\ufe02", "\\ufe03", "\\ufe04", "\\ufe05", "\\ufe06", "\\ufe07", "\\ufe08", "\\ufe09",
    "\\ufe0a", "\\ufe0b", "\\ufe0c", "\\ufe0d", "\\ufe0e", "\\ufe0f", "\\ufe13", "\\ufe20",
    "\\ufe21", "\\ufe22", "\\ufe23", "\\ufe24", "\\ufe25", "\\ufe26", "\\ufe27", "\\ufe28",
    "\\ufe29", "\\ufe2a", "\\ufe2b", "\\ufe2c", "\\ufe2d", "\\ufe2e", "\\ufe2f", "\\ufe52",
    "\\ufe55", "\\ufeff", "\\uff07", "\\uff0e", "\\uff1a", "\\uff3e", "\\uff40", "\\uff70",
    "\\uff9e", "\\uff9f", "\\uffe3", "\\ufff9", "\\ufffa", "\\ufffb" }

CaseIgnorablePairs ==
  <<
     [high |-> "\\ud800",
      low |->
        {
          "\\uddfd", "\\udee0", "\\udf76", "\\udf77", "\\udf78", "\\udf79", "\\udf7a" }],
     [high |-> "\\ud801",
      low |->
        {
          "\\udf80", "\\udf81", "\\udf82", "\\udf83", "\\udf84", "\\udf85", "\\udf87", "\\udf88",
          "\\udf89", "\\udf8a", "\\udf8b", "\\udf8c", "\\udf8d", "\\udf8e", "\\udf8f", "\\udf90",
          "\\udf91", "\\udf92", "\\udf93", "\\udf94", "\\udf95", "\\udf96", "\\udf97", "\\udf98",
          "\\udf99", "\\udf9a", "\\udf9b", "\\udf9c", "\\udf9d", "\\udf9e", "\\udf9f", "\\udfa0",
          "\\udfa1", "\\udfa2", "\\udfa3", "\\udfa4", "\\udfa5", "\\udfa6", "\\udfa7", "\\udfa8",
          "\\udfa9", "\\udfaa", "\\udfab", "\\udfac", "\\udfad", "\\udfae", "\\udfaf", "\\udfb0",
          "\\udfb2", "\\udfb3", "\\udfb4", "\\udfb5", "\\udfb6", "\\udfb7", "\\udfb8", "\\udfb9",
          "\\udfba" }],
     [high |-> "\\ud802",
      low |->
        {
          "\\ude01", "\\ude02", "\\ude03", "\\ude05", "\\ude06", "\\ude0c", "\\ude0d", "\\ude0e",
          "\\ude0f", "\\ude38", "\\ude39", "\\ude3a", "\\ude3f", "\\udee5", "\\udee6" }],
     [high |-> "\\ud803",
      low |->
        {
          "\\udd24", "\\udd25", "\\udd26", "\\udd27", "\\udd4e", "\\udd69", "\\udd6a", "\\udd6b",
          "\\udd6c", "\\udd6d", "\\udd6f", "\\udeab", "\\udeac", "\\udec5", "\\udefa", "\\udefb",
          "\\udefc", "\\udefd", "\\udefe", "\\udeff", "\\udf46", "\\udf47", "\\udf48", "\\udf49",
          "\\udf4a", "\\udf4b", "\\udf4c", "\\udf4d", "\\udf4e", "\\udf4f", "\\udf50", "\\udf82",
          "\\udf83", "\\udf84", "\\udf85" }],
     [high |-> "\\ud804",
      low |->
        {
          "\\udc01", "\\udc38", "\\udc39", "\\udc3a", "\\udc3b", "\\udc3c", "\\udc3d", "\\udc3e",
          "\\udc3f", "\\udc40", "\\udc41", "\\udc42", "\\udc43", "\\udc44", "\\udc45", "\\udc46",
          "\\udc70", "\\udc73", "\\udc74", "\\udc7f", "\\udc80", "\\udc81", "\\udcb3", "\\udcb4",
          "\\udcb5", "\\udcb6", "\\udcb9", "\\udcba", "\\udcbd", "\\udcc2", "\\udccd", "\\udd00",
          "\\udd01", "\\udd02", "\\udd27", "\\udd28", "\\udd29", "\\udd2a", "\\udd2b", "\\udd2d",
          "\\udd2e", "\\udd2f", "\\udd30", "\\udd31", "\\udd32", "\\udd33", "\\udd34", "\\udd73",
          "\\udd80", "\\udd81", "\\uddb6", "\\uddb7", "\\uddb8", "\\uddb9", "\\uddba", "\\uddbb",
          "\\uddbc", "\\uddbd", "\\uddbe", "\\uddc9", "\\uddca", "\\uddcb", "\\uddcc", "\\uddcf",
          "\\ude2f", "\\ude30", "\\ude31", "\\ude34", "\\ude36", "\\ude37", "\\ude3e", "\\ude41",
          "\\udedf", "\\udee3", "\\udee4", "\\udee5", "\\udee6", "\\udee7", "\\udee8", "\\udee9",
          "\\udeea", "\\udf00", "\\udf01", "\\udf3b", "\\udf3c", "\\udf40", "\\udf66", "\\udf67",
          "\\udf68", "\\udf69", "\\udf6a", "\\udf6b", "\\udf6c", "\\udf70", "\\udf71", "\\udf72",
          "\\udf73", "\\udf74", "\\udfbb", "\\udfbc", "\\udfbd", "\\udfbe", "\\udfbf", "\\udfc0",
          "\\udfce", "\\udfd0", "\\udfd2", "\\udfe1", "\\udfe2" }],
     [high |-> "\\ud805",
      low |->
        {
          "\\udc38", "\\udc39", "\\udc3a", "\\udc3b", "\\udc3c", "\\udc3d", "\\udc3e", "\\udc3f",
          "\\udc42", "\\udc43", "\\udc44", "\\udc46", "\\udc5e", "\\udcb3", "\\udcb4", "\\udcb5",
          "\\udcb6", "\\udcb7", "\\udcb8", "\\udcba", "\\udcbf", "\\udcc0", "\\udcc2", "\\udcc3",
          "\\uddb2", "\\uddb3", "\\uddb4", "\\uddb5", "\\uddbc", "\\uddbd", "\\uddbf", "\\uddc0",
          "\\udddc", "\\udddd", "\\ude33", "\\ude34", "\\ude35", "\\ude36", "\\ude37", "\\ude38",
          "\\ude39", "\\ude3a", "\\ude3d", "\\ude3f", "\\ude40", "\\udeab", "\\udead", "\\udeb0",
          "\\udeb1", "\\udeb2", "\\udeb3", "\\udeb4", "\\udeb5", "\\udeb7", "\\udf1d", "\\udf1f",
          "\\udf22", "\\udf23", "\\udf24", "\\udf25", "\\udf27", "\\udf28", "\\udf29", "\\udf2a",
          "\\udf2b" }],
     [high |-> "\\ud806",
      low |->
        {
          "\\udc2f", "\\udc30", "\\udc31", "\\udc32", "\\udc33", "\\udc34", "\\udc35", "\\udc36",
          "\\udc37", "\\udc39", "\\udc3a", "\\udd3b", "\\udd3c", "\\udd3e", "\\udd43", "\\uddd4",
          "\\uddd5", "\\uddd6", "\\uddd7", "\\uddda", "\\udddb", "\\udde0", "\\ude01", "\\ude02",
          "\\ude03", "\\ude04", "\\ude05", "\\ude06", "\\ude07", "\\ude08", "\\ude09", "\\ude0a",
          "\\ude33", "\\ude34", "\\ude35", "\\ude36", "\\ude37", "\\ude38", "\\ude3b", "\\ude3c",
          "\\ude3d", "\\ude3e", "\\ude47", "\\ude51", "\\ude52", "\\ude53", "\\ude54", "\\ude55",
          "\\ude56", "\\ude59", "\\ude5a", "\\ude5b", "\\ude8a", "\\ude8b", "\\ude8c", "\\ude8d",
          "\\ude8e", "\\ude8f", "\\ude90", "\\ude91", "\\ude92", "\\ude93", "\\ude94", "\\ude95",
          "\\ude96", "\\ude98", "\\ude99", "\\udf60", "\\udf62", "\\udf63", "\\udf64", "\\udf66" }],
     [high |-> "\\ud807",
      low |->
        {
          "\\udc30", "\\udc31", "\\udc32", "\\udc33", "\\udc34", "\\udc35", "\\udc36", "\\udc38",
          "\\udc39", "\\udc3a", "\\udc3b", "\\udc3c", "\\udc3d", "\\udc3f", "\\udc92", "\\udc93",
          "\\udc94", "\\udc95", "\\udc96", "\\udc97", "\\udc98", "\\udc99", "\\udc9a", "\\udc9b",
          "\\udc9c", "\\udc9d", "\\udc9e", "\\udc9f", "\\udca0", "\\udca1", "\\udca2", "\\udca3",
          "\\udca4", "\\udca5", "\\udca6", "\\udca7", "\\udcaa", "\\udcab", "\\udcac", "\\udcad",
          "\\udcae", "\\udcaf", "\\udcb0", "\\udcb2", "\\udcb3", "\\udcb5", "\\udcb6", "\\udd31",
          "\\udd32", "\\udd33", "\\udd34", "\\udd35", "\\udd36", "\\udd3a", "\\udd3c", "\\udd3d",
          "\\udd3f", "\\udd40", "\\udd41", "\\udd42", "\\udd43", "\\udd44", "\\udd45", "\\udd47",
          "\\udd90", "\\udd91", "\\udd95", "\\udd97", "\\uddd9", "\\udef3", "\\udef4", "\\udf00",
          "\\udf01", "\\udf36", "\\udf37", "\\udf38", "\\udf39", "\\udf3a", "\\udf40", "\\udf42",
          "\\udf5a" }],
     [high |-> "\\ud80d",
      low |->
        {
          "\\udc30", "\\udc31", "\\udc32", "\\udc33", "\\udc34", "\\udc35", "\\udc36", "\\udc37",
          "\\udc38", "\\udc39", "\\udc3a", "\\udc3b", "\\udc3c", "\\udc3d", "\\udc3e", "\\udc3f",
          "\\udc40", "\\udc47", "\\udc48", "\\udc49", "\\udc4a", "\\udc4b", "\\udc4c", "\\udc4d",
          "\\udc4e", "\\udc4f", "\\udc50", "\\udc51", "\\udc52", "\\udc53", "\\udc54", "\\udc55" }],
     [high |-> "\\ud818",
      low |->
        {
          "\\udd1e", "\\udd1f", "\\udd20", "\\udd21", "\\udd22", "\\udd23", "\\udd24", "\\udd25",
          "\\udd26", "\\udd27", "\\udd28", "\\udd29", "\\udd2d", "\\udd2e", "\\udd2f" }],
     [high |-> "\\ud81a",
      low |->
        {
          "\\udef0", "\\udef1", "\\udef2", "\\udef3", "\\udef4", "\\udf30", "\\udf31", "\\udf32",
          "\\udf33", "\\udf34", "\\udf35", "\\udf36", "\\udf40", "\\udf41", "\\udf42", "\\udf43" }],
     [high |-> "\\ud81b",
      low |->
        {
          "\\udd40", "\\udd41", "\\udd42", "\\udd6b", "\\udd6c", "\\udf4f", "\\udf8f", "\\udf90",
          "\\udf91", "\\udf92", "\\udf93", "\\udf94", "\\udf95", "\\udf96", "\\udf97", "\\udf98",
          "\\udf99", "\\udf9a", "\\udf9b", "\\udf9c", "\\udf9d", "\\udf9e", "\\udf9f", "\\udfe0",
          "\\udfe1", "\\udfe3", "\\udfe4", "\\udff2", "\\udff3" }],
     [high |-> "\\ud82b",
      low |->
        {
          "\\udff0", "\\udff1", "\\udff2", "\\udff3", "\\udff5", "\\udff6", "\\udff7", "\\udff8",
          "\\udff9", "\\udffa", "\\udffb", "\\udffd", "\\udffe" }],
     [high |-> "\\ud82f",
      low |->
        {
          "\\udc9d", "\\udc9e", "\\udca0", "\\udca1", "\\udca2", "\\udca3" }],
     [high |-> "\\ud833",
      low |->
        {
          "\\udf00", "\\udf01", "\\udf02", "\\udf03", "\\udf04", "\\udf05", "\\udf06", "\\udf07",
          "\\udf08", "\\udf09", "\\udf0a", "\\udf0b", "\\udf0c", "\\udf0d", "\\udf0e", "\\udf0f",
          "\\udf10", "\\udf11", "\\udf12", "\\udf13", "\\udf14", "\\udf15", "\\udf16", "\\udf17",
          "\\udf18", "\\udf19", "\\udf1a", "\\udf1b", "\\udf1c", "\\udf1d", "\\udf1e", "\\udf1f",
          "\\udf20", "\\udf21", "\\udf22", "\\udf23", "\\udf24", "\\udf25", "\\udf26", "\\udf27",
          "\\udf28", "\\udf29", "\\udf2a", "\\udf2b", "\\udf2c", "\\udf2d", "\\udf30", "\\udf31",
          "\\udf32", "\\udf33", "\\udf34", "\\udf35", "\\udf36", "\\udf37", "\\udf38", "\\udf39",
          "\\udf3a", "\\udf3b", "\\udf3c", "\\udf3d", "\\udf3e", "\\udf3f", "\\udf40", "\\udf41",
          "\\udf42", "\\udf43", "\\udf44", "\\udf45", "\\udf46" }],
     [high |-> "\\ud834",
      low |->
        {
          "\\udd67", "\\udd68", "\\udd69", "\\udd73", "\\udd74", "\\udd75", "\\udd76", "\\udd77",
          "\\udd78", "\\udd79", "\\udd7a", "\\udd7b", "\\udd7c", "\\udd7d", "\\udd7e", "\\udd7f",
          "\\udd80", "\\udd81", "\\udd82", "\\udd85", "\\udd86", "\\udd87", "\\udd88", "\\udd89",
          "\\udd8a", "\\udd8b", "\\uddaa", "\\uddab", "\\uddac", "\\uddad", "\\ude42", "\\ude43",
          "\\ude44" }],
     [high |-> "\\ud836",
      low |->
        {
          "\\ude00", "\\ude01", "\\ude02", "\\ude03", "\\ude04", "\\ude05", "\\ude06", "\\ude07",
          "\\ude08", "\\ude09", "\\ude0a", "\\ude0b", "\\ude0c", "\\ude0d", "\\ude0e", "\\ude0f",
          "\\ude10", "\\ude11", "\\ude12", "\\ude13", "\\ude14", "\\ude15", "\\ude16", "\\ude17",
          "\\ude18", "\\ude19", "\\ude1a", "\\ude1b", "\\ude1c", "\\ude1d", "\\ude1e", "\\ude1f",
          "\\ude20", "\\ude21", "\\ude22", "\\ude23", "\\ude24", "\\ude25", "\\ude26", "\\ude27",
          "\\ude28", "\\ude29", "\\ude2a", "\\ude2b", "\\ude2c", "\\ude2d", "\\ude2e", "\\ude2f",
          "\\ude30", "\\ude31", "\\ude32", "\\ude33", "\\ude34", "\\ude35", "\\ude36", "\\ude3b",
          "\\ude3c", "\\ude3d", "\\ude3e", "\\ude3f", "\\ude40", "\\ude41", "\\ude42", "\\ude43",
          "\\ude44", "\\ude45", "\\ude46", "\\ude47", "\\ude48", "\\ude49", "\\ude4a", "\\ude4b",
          "\\ude4c", "\\ude4d", "\\ude4e", "\\ude4f", "\\ude50", "\\ude51", "\\ude52", "\\ude53",
          "\\ude54", "\\ude55", "\\ude56", "\\ude57", "\\ude58", "\\ude59", "\\ude5a", "\\ude5b",
          "\\ude5c", "\\ude5d", "\\ude5e", "\\ude5f", "\\ude60", "\\ude61", "\\ude62", "\\ude63",
          "\\ude64", "\\ude65", "\\ude66", "\\ude67", "\\ude68", "\\ude69", "\\ude6a", "\\ude6b",
          "\\ude6c", "\\ude75", "\\ude84", "\\ude9b", "\\ude9c", "\\ude9d", "\\ude9e", "\\ude9f",
          "\\udea1", "\\udea2", "\\udea3", "\\udea4", "\\udea5", "\\udea6", "\\udea7", "\\udea8",
          "\\udea9", "\\udeaa", "\\udeab", "\\udeac", "\\udead", "\\udeae", "\\udeaf" }],
     [high |-> "\\ud838",
      low |->
        {
          "\\udc00", "\\udc01", "\\udc02", "\\udc03", "\\udc04", "\\udc05", "\\udc06", "\\udc08",
          "\\udc09", "\\udc0a", "\\udc0b", "\\udc0c", "\\udc0d", "\\udc0e", "\\udc0f", "\\udc10",
          "\\udc11", "\\udc12", "\\udc13", "\\udc14", "\\udc15", "\\udc16", "\\udc17", "\\udc18",
          "\\udc1b", "\\udc1c", "\\udc1d", "\\udc1e", "\\udc1f", "\\udc20", "\\udc21", "\\udc23",
          "\\udc24", "\\udc26", "\\udc27", "\\udc28", "\\udc29", "\\udc2a", "\\udc30", "\\udc31",
          "\\udc32", "\\udc33", "\\udc34", "\\udc35", "\\udc36", "\\udc37", "\\udc38", "\\udc39",
          "\\udc3a", "\\udc3b", "\\udc3c", "\\udc3d", "\\udc3e", "\\udc3f", "\\udc40", "\\udc41",
          "\\udc42", "\\udc43", "\\udc44", "\\udc45", "\\udc46", "\\udc47", "\\udc48", "\\udc49",
          "\\udc4a", "\\udc4b", "\\udc4c", "\\udc4d", "\\udc4e", "\\udc4f", "\\udc50", "\\udc51",
          "\\udc52", "\\udc53", "\\udc54", "\\udc55", "\\udc56", "\\udc57", "\\udc58", "\\udc59",
          "\\udc5a", "\\udc5b", "\\udc5c", "\\udc5d", "\\udc5e", "\\udc5f", "\\udc60", "\\udc61",
          "\\udc62", "\\udc63", "\\udc64", "\\udc65", "\\udc66", "\\udc67", "\\udc68", "\\udc69",
          "\\udc6a", "\\udc6b", "\\udc6c", "\\udc6d", "\\udc8f", "\\udd30", "\\udd31", "\\udd32",
          "\\udd33", "\\udd34", "\\udd35", "\\udd36", "\\udd37", "\\udd38", "\\udd39", "\\udd3a",
          "\\udd3b", "\\udd3c", "\\udd3d", "\\udeae", "\\udeec", "\\udeed", "\\udeee", "\\udeef" }],
     [high |-> "\\ud839",
      low |->
        {
          "\\udceb", "\\udcec", "\\udced", "\\udcee", "\\udcef", "\\uddee", "\\uddef", "\\udee3",
          "\\udee6", "\\udeee", "\\udeef", "\\udef5", "\\udeff" }],
     [high |-> "\\ud83a",
      low |->
        {
          "\\udcd0", "\\udcd1", "\\udcd2", "\\udcd3", "\\udcd4", "\\udcd5", "\\udcd6", "\\udd44",
          "\\udd45", "\\udd46", "\\udd47", "\\udd48", "\\udd49", "\\udd4a", "\\udd4b" }],
     [high |-> "\\ud83c",
      low |->
        {
          "\\udffb", "\\udffc", "\\udffd", "\\udffe", "\\udfff" }],
     [high |-> "\\udb40",
      low |->
        {
          "\\udc01", "\\udc20", "\\udc21", "\\udc22", "\\udc23", "\\udc24", "\\udc25", "\\udc26",
          "\\udc27", "\\udc28", "\\udc29", "\\udc2a", "\\udc2b", "\\udc2c", "\\udc2d", "\\udc2e",
          "\\udc2f", "\\udc30", "\\udc31", "\\udc32", "\\udc33", "\\udc34", "\\udc35", "\\udc36",
          "\\udc37", "\\udc38", "\\udc39", "\\udc3a", "\\udc3b", "\\udc3c", "\\udc3d", "\\udc3e",
          "\\udc3f", "\\udc40", "\\udc41", "\\udc42", "\\udc43", "\\udc44", "\\udc45", "\\udc46",
          "\\udc47", "\\udc48", "\\udc49", "\\udc4a", "\\udc4b", "\\udc4c", "\\udc4d", "\\udc4e",
          "\\udc4f", "\\udc50", "\\udc51", "\\udc52", "\\udc53", "\\udc54", "\\udc55", "\\udc56",
          "\\udc57", "\\udc58", "\\udc59", "\\udc5a", "\\udc5b", "\\udc5c", "\\udc5d", "\\udc5e",
          "\\udc5f", "\\udc60", "\\udc61", "\\udc62", "\\udc63", "\\udc64", "\\udc65", "\\udc66",
          "\\udc67", "\\udc68", "\\udc69", "\\udc6a", "\\udc6b", "\\udc6c", "\\udc6d", "\\udc6e",
          "\\udc6f", "\\udc70", "\\udc71", "\\udc72", "\\udc73", "\\udc74", "\\udc75", "\\udc76",
          "\\udc77", "\\udc78", "\\udc79", "\\udc7a", "\\udc7b", "\\udc7c", "\\udc7d", "\\udc7e",
          "\\udc7f", "\\udd00", "\\udd01", "\\udd02", "\\udd03", "\\udd04", "\\udd05", "\\udd06",
          "\\udd07", "\\udd08", "\\udd09", "\\udd0a", "\\udd0b", "\\udd0c", "\\udd0d", "\\udd0e",
          "\\udd0f", "\\udd10", "\\udd11", "\\udd12", "\\udd13", "\\udd14", "\\udd15", "\\udd16",
          "\\udd17", "\\udd18", "\\udd19", "\\udd1a", "\\udd1b", "\\udd1c", "\\udd1d", "\\udd1e",
          "\\udd1f", "\\udd20", "\\udd21", "\\udd22", "\\udd23", "\\udd24", "\\udd25", "\\udd26",
          "\\udd27", "\\udd28", "\\udd29", "\\udd2a", "\\udd2b", "\\udd2c", "\\udd2d", "\\udd2e",
          "\\udd2f", "\\udd30", "\\udd31", "\\udd32", "\\udd33", "\\udd34", "\\udd35", "\\udd36",
          "\\udd37", "\\udd38", "\\udd39", "\\udd3a", "\\udd3b", "\\udd3c", "\\udd3d", "\\udd3e",
          "\\udd3f", "\\udd40", "\\udd41", "\\udd42", "\\udd43", "\\udd44", "\\udd45", "\\udd46",
          "\\udd47", "\\udd48", "\\udd49", "\\udd4a", "\\udd4b", "\\udd4c", "\\udd4d", "\\udd4e",
          "\\udd4f", "\\udd50", "\\udd51", "\\udd52", "\\udd53", "\\udd54", "\\udd55", "\\udd56",
          "\\udd57", "\\udd58", "\\udd59", "\\udd5a", "\\udd5b", "\\udd5c", "\\udd5d", "\\udd5e",
          "\\udd5f", "\\udd60", "\\udd61", "\\udd62", "\\udd63", "\\udd64", "\\udd65", "\\udd66",
          "\\udd67", "\\udd68", "\\udd69", "\\udd6a", "\\udd6b", "\\udd6c", "\\udd6d", "\\udd6e",
          "\\udd6f", "\\udd70", "\\udd71", "\\udd72", "\\udd73", "\\udd74", "\\udd75", "\\udd76",
          "\\udd77", "\\udd78", "\\udd79", "\\udd7a", "\\udd7b", "\\udd7c", "\\udd7d", "\\udd7e",
          "\\udd7f", "\\udd80", "\\udd81", "\\udd82", "\\udd83", "\\udd84", "\\udd85", "\\udd86",
          "\\udd87", "\\udd88", "\\udd89", "\\udd8a", "\\udd8b", "\\udd8c", "\\udd8d", "\\udd8e",
          "\\udd8f", "\\udd90", "\\udd91", "\\udd92", "\\udd93", "\\udd94", "\\udd95", "\\udd96",
          "\\udd97", "\\udd98", "\\udd99", "\\udd9a", "\\udd9b", "\\udd9c", "\\udd9d", "\\udd9e",
          "\\udd9f", "\\udda0", "\\udda1", "\\udda2", "\\udda3", "\\udda4", "\\udda5", "\\udda6",
          "\\udda7", "\\udda8", "\\udda9", "\\uddaa", "\\uddab", "\\uddac", "\\uddad", "\\uddae",
          "\\uddaf", "\\uddb0", "\\uddb1", "\\uddb2", "\\uddb3", "\\uddb4", "\\uddb5", "\\uddb6",
          "\\uddb7", "\\uddb8", "\\uddb9", "\\uddba", "\\uddbb", "\\uddbc", "\\uddbd", "\\uddbe",
          "\\uddbf", "\\uddc0", "\\uddc1", "\\uddc2", "\\uddc3", "\\uddc4", "\\uddc5", "\\uddc6",
          "\\uddc7", "\\uddc8", "\\uddc9", "\\uddca", "\\uddcb", "\\uddcc", "\\uddcd", "\\uddce",
          "\\uddcf", "\\uddd0", "\\uddd1", "\\uddd2", "\\uddd3", "\\uddd4", "\\uddd5", "\\uddd6",
          "\\uddd7", "\\uddd8", "\\uddd9", "\\uddda", "\\udddb", "\\udddc", "\\udddd", "\\uddde",
          "\\udddf", "\\udde0", "\\udde1", "\\udde2", "\\udde3", "\\udde4", "\\udde5", "\\udde6",
          "\\udde7", "\\udde8", "\\udde9", "\\uddea", "\\uddeb", "\\uddec", "\\udded", "\\uddee",
          "\\uddef" }] >>

\* Cased and not Case_Ignorable: the code units, and the surrogate pairs by
\* first unit.
Cased ==
  {
    "A", "B", "C", "D", "E", "F", "G", "H", "I", "J", "K", "L", "M", "N", "O", "P", "Q", "R", "S",
    "T", "U", "V", "W", "X", "Y", "Z", "a", "b", "c", "d", "e", "f", "g", "h", "i", "j", "k", "l",
    "m", "n", "o", "p", "q", "r", "s", "t", "u", "v", "w", "x", "y", "z", "ª", "µ", "º", "À", "Á",
    "Â", "Ã", "Ä", "Å", "Æ", "Ç", "È", "É", "Ê", "Ë", "Ì", "Í", "Î", "Ï", "Ð", "Ñ", "Ò", "Ó", "Ô",
    "Õ", "Ö", "Ø", "Ù", "Ú", "Û", "Ü", "Ý", "Þ", "ß", "à", "á", "â", "ã", "ä", "å", "æ", "ç", "è",
    "é", "ê", "ë", "ì", "í", "î", "ï", "ð", "ñ", "ò", "ó", "ô", "õ", "ö", "ø", "ù", "ú", "û", "ü",
    "ý", "þ", "ÿ", "\\u0100", "\\u0101", "\\u0102", "\\u0103", "\\u0104", "\\u0105", "\\u0106",
    "\\u0107", "\\u0108", "\\u0109", "\\u010a", "\\u010b", "\\u010c", "\\u010d", "\\u010e",
    "\\u010f", "\\u0110", "\\u0111", "\\u0112", "\\u0113", "\\u0114", "\\u0115", "\\u0116",
    "\\u0117", "\\u0118", "\\u0119", "\\u011a", "\\u011b", "\\u011c", "\\u011d", "\\u011e",
    "\\u011f", "\\u0120", "\\u0121", "\\u0122", "\\u0123", "\\u0124", "\\u0125", "\\u0126",
    "\\u0127", "\\u0128", "\\u0129", "\\u012a", "\\u012b", "\\u012c", "\\u012d", "\\u012e",
    "\\u012f", "\\u0130", "\\u0131", "\\u0132", "\\u0133", "\\u0134", "\\u0135", "\\u0136",
    "\\u0137", "\\u0138", "\\u0139", "\\u013a", "\\u013b", "\\u013c", "\\u013d", "\\u013e",
    "\\u013f", "\\u0140", "\\u0141", "\\u0142", "\\u0143", "\\u0144", "\\u0145", "\\u0146",
    "\\u0147", "\\u0148", "\\u0149", "\\u014a", "\\u014b", "\\u014c", "\\u014d", "\\u014e",
    "\\u014f", "\\u0150", "\\u0151", "\\u0152", "\\u0153", "\\u0154", "\\u0155", "\\u0156",
    "\\u0157", "\\u0158", "\\u0159", "\\u015a", "\\u015b", "\\u015c", "\\u015d", "\\u015e",
    "\\u015f", "\\u0160", "\\u0161", "\\u0162", "\\u0163", "\\u0164", "\\u0165", "\\u0166",
    "\\u0167", "\\u0168", "\\u0169", "\\u016a", "\\u016b", "\\u016c", "\\u016d", "\\u016e",
    "\\u016f", "\\u0170", "\\u0171", "\\u0172", "\\u0173", "\\u0174", "\\u0175", "\\u0176",
    "\\u0177", "\\u0178", "\\u0179", "\\u017a", "\\u017b", "\\u017c", "\\u017d", "\\u017e",
    "\\u017f", "\\u0180", "\\u0181", "\\u0182", "\\u0183", "\\u0184", "\\u0185", "\\u0186",
    "\\u0187", "\\u0188", "\\u0189", "\\u018a", "\\u018b", "\\u018c", "\\u018d", "\\u018e",
    "\\u018f", "\\u0190", "\\u0191", "\\u0192", "\\u0193", "\\u0194", "\\u0195", "\\u0196",
    "\\u0197", "\\u0198", "\\u0199", "\\u019a", "\\u019b", "\\u019c", "\\u019d", "\\u019e",
    "\\u019f", "\\u01a0", "\\u01a1", "\\u01a2", "\\u01a3", "\\u01a4", "\\u01a5", "\\u01a6",
    "\\u01a7", "\\u01a8", "\\u01a9", "\\u01aa", "\\u01ab", "\\u01ac", "\\u01ad", "\\u01ae",
    "\\u01af", "\\u01b0", "\\u01b1", "\\u01b2", "\\u01b3", "\\u01b4", "\\u01b5", "\\u01b6",
    "\\u01b7", "\\u01b8", "\\u01b9", "\\u01ba", "\\u01bc", "\\u01bd", "\\u01be", "\\u01bf",
    "\\u01c4", "\\u01c5", "\\u01c6", "\\u01c7", "\\u01c8", "\\u01c9", "\\u01ca", "\\u01cb",
    "\\u01cc", "\\u01cd", "\\u01ce", "\\u01cf", "\\u01d0", "\\u01d1", "\\u01d2", "\\u01d3",
    "\\u01d4", "\\u01d5", "\\u01d6", "\\u01d7", "\\u01d8", "\\u01d9", "\\u01da", "\\u01db",
    "\\u01dc", "\\u01dd", "\\u01de", "\\u01df", "\\u01e0", "\\u01e1", "\\u01e2", "\\u01e3",
    "\\u01e4", "\\u01e5", "\\u01e6", "\\u01e7", "\\u01e8", "\\u01e9", "\\u01ea", "\\u01eb",
    "\\u01ec", "\\u01ed", "\\u01ee", "\\u01ef", "\\u01f0", "\\u01f1", "\\u01f2", "\\u01f3",
    "\\u01f4", "\\u01f5", "\\u01f6", "\\u01f7", "\\u01f8", "\\u01f9", "\\u01fa", "\\u01fb",
    "\\u01fc", "\\u01fd", "\\u01fe", "\\u01ff", "\\u0200", "\\u0201", "\\u0202", "\\u0203",
    "\\u0204", "\\u0205", "\\u0206", "\\u0207", "\\u0208", "\\u0209", "\\u020a", "\\u020b",
    "\\u020c", "\\u020d", "\\u020e", "\\u020f", "\\u0210", "\\u0211", "\\u0212", "\\u0213",
    "\\u0214", "\\u0215", "\\u0216", "\\u0217", "\\u0218", "\\u0219", "\\u021a", "\\u021b",
    "\\u021c", "\\u021d", "\\u021e", "\\u021f", "\\u0220", "\\u0221", "\\u0222", "\\u0223",
    "\\u0224", "\\u0225", "\\u0226", "\\u0227", "\\u0228", "\\u0229", "\\u022a", "\\u022b",
    "\\u022c", "\\u022d", "\\u022e", "\\u022f", "\\u0230", "\\u0231", "\\u0232", "\\u0233",
    "\\u0234", "\\u0235", "\\u0236", "\\u0237", "\\u0238", "\\u0239", "\\u023a", "\\u023b",
    "\\u023c", "\\u023d", "\\u023e", "\\u023f", "\\u0240", "\\u0241", "\\u0242", "\\u0243",
    "\\u0244", "\\u0245", "\\u0246", "\\u0247", "\\u0248", "\\u0249", "\\u024a", "\\u024b",
    "\\u024c", "\\u024d", "\\u024e", "\\u024f", "\\u0250", "\\u0251", "\\u0252", "\\u0253",
    "\\u0254", "\\u0255", "\\u0256", "\\u0257", "\\u0258", "\\u0259", "\\u025a", "\\u025b",
    "\\u025c", "\\u025d", "\\u025e", "\\u025f", "\\u0260", "\\u0261", "\\u0262", "\\u0263",
    "\\u0264", "\\u0265", "\\u0266", "\\u0267", "\\u0268", "\\u0269", "\\u026a", "\\u026b",
    "\\u026c", "\\u026d", "\\u026e", "\\u026f", "\\u0270", "\\u0271", "\\u0272", "\\u0273",
    "\\u0274", "\\u0275", "\\u0276", "\\u0277", "\\u0278", "\\u0279", "\\u027a", "\\u027b",
    "\\u027c", "\\u027d", "\\u027e", "\\u027f", "\\u0280", "\\u0281", "\\u0282", "\\u0283",
    "\\u0284", "\\u0285", "\\u0286", "\\u0287", "\\u0288", "\\u0289", "\\u028a", "\\u028b",
    "\\u028c", "\\u028d", "\\u028e", "\\u028f", "\\u0290", "\\u0291", "\\u0292", "\\u0293",
    "\\u0296", "\\u0297", "\\u0298", "\\u0299", "\\u029a", "\\u029b", "\\u029c", "\\u029d",
    "\\u029e", "\\u029f", "\\u02a0", "\\u02a1", "\\u02a2", "\\u02a3", "\\u02a4", "\\u02a5",
    "\\u02a6", "\\u02a7", "\\u02a8", "\\u02a9", "\\u02aa", "\\u02ab", "\\u02ac", "\\u02ad",
    "\\u02ae", "\\u02af", "\\u0370", "\\u0371", "\\u0372", "\\u0373", "\\u0376", "\\u0377",
    "\\u037b", "\\u037c", "\\u037d", "\\u037f", "\\u0386", "\\u0388", "\\u0389", "\\u038a",
    "\\u038c", "\\u038e", "\\u038f", "\\u0390", "\\u0391", "\\u0392", "\\u0393", "\\u0394",
    "\\u0395", "\\u0396", "\\u0397", "\\u0398", "\\u0399", "\\u039a", "\\u039b", "\\u039c",
    "\\u039d", "\\u039e", "\\u039f", "\\u03a0", "\\u03a1", "\\u03a3", "\\u03a4", "\\u03a5",
    "\\u03a6", "\\u03a7", "\\u03a8", "\\u03a9", "\\u03aa", "\\u03ab", "\\u03ac", "\\u03ad",
    "\\u03ae", "\\u03af", "\\u03b0", "\\u03b1", "\\u03b2", "\\u03b3", "\\u03b4", "\\u03b5",
    "\\u03b6", "\\u03b7", "\\u03b8", "\\u03b9", "\\u03ba", "\\u03bb", "\\u03bc", "\\u03bd",
    "\\u03be", "\\u03bf", "\\u03c0", "\\u03c1", "\\u03c2", "\\u03c3", "\\u03c4", "\\u03c5",
    "\\u03c6", "\\u03c7", "\\u03c8", "\\u03c9", "\\u03ca", "\\u03cb", "\\u03cc", "\\u03cd",
    "\\u03ce", "\\u03cf", "\\u03d0", "\\u03d1", "\\u03d2", "\\u03d3", "\\u03d4", "\\u03d5",
    "\\u03d6", "\\u03d7", "\\u03d8", "\\u03d9", "\\u03da", "\\u03db", "\\u03dc", "\\u03dd",
    "\\u03de", "\\u03df", "\\u03e0", "\\u03e1", "\\u03e2", "\\u03e3", "\\u03e4", "\\u03e5",
    "\\u03e6", "\\u03e7", "\\u03e8", "\\u03e9", "\\u03ea", "\\u03eb", "\\u03ec", "\\u03ed",
    "\\u03ee", "\\u03ef", "\\u03f0", "\\u03f1", "\\u03f2", "\\u03f3", "\\u03f4", "\\u03f5",
    "\\u03f7", "\\u03f8", "\\u03f9", "\\u03fa", "\\u03fb", "\\u03fc", "\\u03fd", "\\u03fe",
    "\\u03ff", "\\u0400", "\\u0401", "\\u0402", "\\u0403", "\\u0404", "\\u0405", "\\u0406",
    "\\u0407", "\\u0408", "\\u0409", "\\u040a", "\\u040b", "\\u040c", "\\u040d", "\\u040e",
    "\\u040f", "\\u0410", "\\u0411", "\\u0412", "\\u0413", "\\u0414", "\\u0415", "\\u0416",
    "\\u0417", "\\u0418", "\\u0419", "\\u041a", "\\u041b", "\\u041c", "\\u041d", "\\u041e",
    "\\u041f", "\\u0420", "\\u0421", "\\u0422", "\\u0423", "\\u0424", "\\u0425", "\\u0426",
    "\\u0427", "\\u0428", "\\u0429", "\\u042a", "\\u042b", "\\u042c", "\\u042d", "\\u042e",
    "\\u042f", "\\u0430", "\\u0431", "\\u0432", "\\u0433", "\\u0434", "\\u0435", "\\u0436",
    "\\u0437", "\\u0438", "\\u0439", "\\u043a", "\\u043b", "\\u043c", "\\u043d", "\\u043e",
    "\\u043f", "\\u0440", "\\u0441", "\\u0442", "\\u0443", "\\u0444", "\\u0445", "\\u0446",
    "\\u0447", "\\u0448", "\\u0449", "\\u044a", "\\u044b", "\\u044c", "\\u044d", "\\u044e",
    "\\u044f", "\\u0450", "\\u0451", "\\u0452", "\\u0453", "\\u0454", "\\u0455", "\\u0456",
    "\\u0457", "\\u0458", "\\u0459", "\\u045a", "\\u045b", "\\u045c", "\\u045d", "\\u045e",
    "\\u045f", "\\u0460", "\\u0461", "\\u0462", "\\u0463", "\\u0464", "\\u0465", "\\u0466",
    "\\u0467", "\\u0468", "\\u0469", "\\u046a", "\\u046b", "\\u046c", "\\u046d", "\\u046e",
    "\\u046f", "\\u0470", "\\u0471", "\\u0472", "\\u0473", "\\u0474", "\\u0475", "\\u0476",
    "\\u0477", "\\u0478", "\\u0479", "\\u047a", "\\u047b", "\\u047c", "\\u047d", "\\u047e",
    "\\u047f", "\\u0480", "\\u0481", "\\u048a", "\\u048b", "\\u048c", "\\u048d", "\\u048e",
    "\\u048f", "\\u0490", "\\u0491", "\\u0492", "\\u0493", "\\u0494", "\\u0495", "\\u0496",
    "\\u0497", "\\u0498", "\\u0499", "\\u049a", "\\u049b", "\\u049c", "\\u049d", "\\u049e",
    "\\u049f", "\\u04a0", "\\u04a1", "\\u04a2", "\\u04a3", "\\u04a4", "\\u04a5", "\\u04a6",
    "\\u04a7", "\\u04a8", "\\u04a9", "\\u04aa", "\\u04ab", "\\u04ac", "\\u04ad", "\\u04ae",
    "\\u04af", "\\u04b0", "\\u04b1", "\\u04b2", "\\u04b3", "\\u04b4", "\\u04b5", "\\u04b6",
    "\\u04b7", "\\u04b8", "\\u04b9", "\\u04ba", "\\u04bb", "\\u04bc", "\\u04bd", "\\u04be",
    "\\u04bf", "\\u04c0", "\\u04c1", "\\u04c2", "\\u04c3", "\\u04c4", "\\u04c5", "\\u04c6",
    "\\u04c7", "\\u04c8", "\\u04c9", "\\u04ca", "\\u04cb", "\\u04cc", "\\u04cd", "\\u04ce",
    "\\u04cf", "\\u04d0", "\\u04d1", "\\u04d2", "\\u04d3", "\\u04d4", "\\u04d5", "\\u04d6",
    "\\u04d7", "\\u04d8", "\\u04d9", "\\u04da", "\\u04db", "\\u04dc", "\\u04dd", "\\u04de",
    "\\u04df", "\\u04e0", "\\u04e1", "\\u04e2", "\\u04e3", "\\u04e4", "\\u04e5", "\\u04e6",
    "\\u04e7", "\\u04e8", "\\u04e9", "\\u04ea", "\\u04eb", "\\u04ec", "\\u04ed", "\\u04ee",
    "\\u04ef", "\\u04f0", "\\u04f1", "\\u04f2", "\\u04f3", "\\u04f4", "\\u04f5", "\\u04f6",
    "\\u04f7", "\\u04f8", "\\u04f9", "\\u04fa", "\\u04fb", "\\u04fc", "\\u04fd", "\\u04fe",
    "\\u04ff", "\\u0500", "\\u0501", "\\u0502", "\\u0503", "\\u0504", "\\u0505", "\\u0506",
    "\\u0507", "\\u0508", "\\u0509", "\\u050a", "\\u050b", "\\u050c", "\\u050d", "\\u050e",
    "\\u050f", "\\u0510", "\\u0511", "\\u0512", "\\u0513", "\\u0514", "\\u0515", "\\u0516",
    "\\u0517", "\\u0518", "\\u0519", "\\u051a", "\\u051b", "\\u051c", "\\u051d", "\\u051e",
    "\\u051f", "\\u0520", "\\u0521", "\\u0522", "\\u0523", "\\u0524", "\\u0525", "\\u0526",
    "\\u0527", "\\u0528", "\\u0529", "\\u052a", "\\u052b", "\\u052c", "\\u052d", "\\u052e",
    "\\u052f", "\\u0531", "\\u0532", "\\u0533", "\\u0534", "\\u0535", "\\u0536", "\\u0537",
    "\\u0538", "\\u0539", "\\u053a", "\\u053b", "\\u053c", "\\u053d", "\\u053e", "\\u053f",
    "\\u0540", "\\u0541", "\\u0542", "\\u0543", "\\u0544", "\\u0545", "\\u0546", "\\u0547",
    "\\u0548", "\\u0549", "\\u054a", "\\u054b", "\\u054c", "\\u054d", "\\u054e", "\\u054f",
    "\\u0550", "\\u0551", "\\u0552", "\\u0553", "\\u0554", "\\u0555", "\\u0556", "\\u0560",
    "\\u0561", "\\u0562", "\\u0563", "\\u0564", "\\u0565", "\\u0566", "\\u0567", "\\u0568",
    "\\u0569", "\\u056a", "\\u056b", "\\u056c", "\\u056d", "\\u056e", "\\u056f", "\\u0570",
    "\\u0571", "\\u0572", "\\u0573", "\\u0574", "\\u0575", "\\u0576", "\\u0577", "\\u0578",
    "\\u0579", "\\u057a", "\\u057b", "\\u057c", "\\u057d", "\\u057e", "\\u057f", "\\u0580",
    "\\u0581", "\\u0582", "\\u0583", "\\u0584", "\\u0585", "\\u0586", "\\u0587", "\\u0588",
    "\\u10a0", "\\u10a1", "\\u10a2", "\\u10a3", "\\u10a4", "\\u10a5", "\\u10a6", "\\u10a7",
    "\\u10a8", "\\u10a9", "\\u10aa", "\\u10ab", "\\u10ac", "\\u10ad", "\\u10ae", "\\u10af",
    "\\u10b0", "\\u10b1", "\\u10b2", "\\u10b3", "\\u10b4", "\\u10b5", "\\u10b6", "\\u10b7",
    "\\u10b8", "\\u10b9", "\\u10ba", "\\u10bb", "\\u10bc", "\\u10bd", "\\u10be", "\\u10bf",
    "\\u10c0", "\\u10c1", "\\u10c2", "\\u10c3", "\\u10c4", "\\u10c5", "\\u10c7", "\\u10cd",
    "\\u10d0", "\\u10d1", "\\u10d2", "\\u10d3", "\\u10d4", "\\u10d5", "\\u10d6", "\\u10d7",
    "\\u10d8", "\\u10d9", "\\u10da", "\\u10db", "\\u10dc", "\\u10dd", "\\u10de", "\\u10df",
    "\\u10e0", "\\u10e1", "\\u10e2", "\\u10e3", "\\u10e4", "\\u10e5", "\\u10e6", "\\u10e7",
    "\\u10e8", "\\u10e9", "\\u10ea", "\\u10eb", "\\u10ec", "\\u10ed", "\\u10ee", "\\u10ef",
    "\\u10f0", "\\u10f1", "\\u10f2", "\\u10f3", "\\u10f4", "\\u10f5", "\\u10f6", "\\u10f7",
    "\\u10f8", "\\u10f9", "\\u10fa", "\\u10fd", "\\u10fe", "\\u10ff", "\\u13a0", "\\u13a1",
    "\\u13a2", "\\u13a3", "\\u13a4", "\\u13a5", "\\u13a6", "\\u13a7", "\\u13a8", "\\u13a9",
    "\\u13aa", "\\u13ab", "\\u13ac", "\\u13ad", "\\u13ae", "\\u13af", "\\u13b0", "\\u13b1",
    "\\u13b2", "\\u13b3", "\\u13b4", "\\u13b5", "\\u13b6", "\\u13b7", "\\u13b8", "\\u13b9",
    "\\u13ba", "\\u13bb", "\\u13bc", "\\u13bd", "\\u13be", "\\u13bf", "\\u13c0", "\\u13c1",
    "\\u13c2", "\\u13c3", "\\u13c4", "\\u13c5", "\\u13c6", "\\u13c7", "\\u13c8", "\\u13c9",
    "\\u13ca", "\\u13cb", "\\u13cc", "\\u13cd", "\\u13ce", "\\u13cf", "\\u13d0", "\\u13d1",
    "\\u13d2", "\\u13d3", "\\u13d4", "\\u13d5", "\\u13d6", "\\u13d7", "\\u13d8", "\\u13d9",
    "\\u13da", "\\u13db", "\\u13dc", "\\u13dd", "\\u13de", "\\u13df", "\\u13e0", "\\u13e1",
    "\\u13e2", "\\u13e3", "\\u13e4", "\\u13e5", "\\u13e6", "\\u13e7", "\\u13e8", "\\u13e9",
    "\\u13ea", "\\u13eb", "\\u13ec", "\\u13ed", "\\u13ee", "\\u13ef", "\\u13f0", "\\u13f1",
    "\\u13f2", "\\u13f3", "\\u13f4", "\\u13f5", "\\u13f8", "\\u13f9", "\\u13fa", "\\u13fb",
    "\\u13fc", "\\u13fd", "\\u1c80", "\\u1c81", "\\u1c82", "\\u1c83", "\\u1c84", "\\u1c85",
    "\\u1c86", "\\u1c87", "\\u1c88", "\\u1c89", "\\u1c8a", "\\u1c90", "\\u1c91", "\\u1c92",
    "\\u1c93", "\\u1c94", "\\u1c95", "\\u1c96", "\\u1c97", "\\u1c98", "\\u1c99", "\\u1c9a",
    "\\u1c9b", "\\u1c9c", "\\u1c9d", "\\u1c9e", "\\u1c9f", "\\u1ca0", "\\u1ca1", "\\u1ca2",
    "\\u1ca3", "\\u1ca4", "\\u1ca5", "\\u1ca6", "\\u1ca7", "\\u1ca8", "\\u1ca9", "\\u1caa",
    "\\u1cab", "\\u1cac", "\\u1cad", "\\u1cae", "\\u1caf", "\\u1cb0", "\\u1cb1", "\\u1cb2",
    "\\u1cb3", "\\u1cb4", "\\u1cb5", "\\u1cb6", "\\u1cb7", "\\u1cb8", "\\u1cb9", "\\u1cba",
    "\\u1cbd", "\\u1cbe", "\\u1cbf", "\\u1d00", "\\u1d01", "\\u1d02", "\\u1d03", "\\u1d04",
    "\\u1d05", "\\u1d06", "\\u1d07", "\\u1d08", "\\u1d09", "\\u1d0a", "\\u1d0b", "\\u1d0c",
    "\\u1d0d", "\\u1d0e", "\\u1d0f", "\\u1d10", "\\u1d11", "\\u1d12", "\\u1d13", "\\u1d14",
    "\\u1d15", "\\u1d16", "\\u1d17", "\\u1d18", "\\u1d19", "\\u1d1a", "\\u1d1b", "\\u1d1c",
    "\\u1d1d", "\\u1d1e", "\\u1d1f", "\\u1d20", "\\u1d21", "\\u1d22", "\\u1d23", "\\u1d24",
    "\\u1d25", "\\u1d26", "\\u1d27", "\\u1d28", "\\u1d29", "\\u1d2a", "\\u1d2b", "\\u1d6b",
    "\\u1d6c", "\\u1d6d", "\\u1d6e", "\\u1d6f", "\\u1d70", "\\u1d71", "\\u1d72", "\\u1d73",
    "\\u1d74", "\\u1d75", "\\u1d76", "\\u1d77", "\\u1d79", "\\u1d7a", "\\u1d7b", "\\u1d7c",
    "\\u1d7d", "\\u1d7e", "\\u1d7f", "\\u1d80", "\\u1d81", "\\u1d82", "\\u1d83", "\\u1d84",
    "\\u1d85", "\\u1d86", "\\u1d87", "\\u1d88", "\\u1d89", "\\u1d8a", "\\u1d8b", "\\u1d8c",
    "\\u1d8d", "\\u1d8e", "\\u1d8f", "\\u1d90", "\\u1d91", "\\u1d92", "\\u1d93", "\\u1d94",
    "\\u1d95", "\\u1d96", "\\u1d97", "\\u1d98", "\\u1d99", "\\u1d9a", "\\u1e00", "\\u1e01",
    "\\u1e02", "\\u1e03", "\\u1e04", "\\u1e05", "\\u1e06", "\\u1e07", "\\u1e08", "\\u1e09",
    "\\u1e0a", "\\u1e0b", "\\u1e0c", "\\u1e0d", "\\u1e0e", "\\u1e0f", "\\u1e10", "\\u1e11",
    "\\u1e12", "\\u1e13", "\\u1e14", "\\u1e15", "\\u1e16", "\\u1e17", "\\u1e18", "\\u1e19",
    "\\u1e1a", "\\u1e1b", "\\u1e1c", "\\u1e1d", "\\u1e1e", "\\u1e1f", "\\u1e20", "\\u1e21",
    "\\u1e22", "\\u1e23", "\\u1e24", "\\u1e25", "\\u1e26", "\\u1e27", "\\u1e28", "\\u1e29",
    "\\u1e2a", "\\u1e2b", "\\u1e2c", "\\u1e2d", "\\u1e2e", "\\u1e2f", "\\u1e30", "\\u1e31",
    "\\u1e32", "\\u1e33", "\\u1e34", "\\u1e35", "\\u1e36", "\\u1e37", "\\u1e38", "\\u1e39",
    "\\u1e3a", "\\u1e3b", "\\u1e3c", "\\u1e3d", "\\u1e3e", "\\u1e3f", "\\u1e40", "\\u1e41",
    "\\u1e42", "\\u1e43", "\\u1e44", "\\u1e45", "\\u1e46", "\\u1e47", "\\u1e48", "\\u1e49",
    "\\u1e4a", "\\u1e4b", "\\u1e4c", "\\u1e4d", "\\u1e4e", "\\u1e4f", "\\u1e50", "\\u1e51",
    "\\u1e52", "\\u1e53", "\\u1e54", "\\u1e55", "\\u1e56", "\\u1e57", "\\u1e58", "\\u1e59",
    "\\u1e5a", "\\u1e5b", "\\u1e5c", "\\u1e5d", "\\u1e5e", "\\u1e5f", "\\u1e60", "\\u1e61",
    "\\u1e62", "\\u1e63", "\\u1e64", "\\u1e65", "\\u1e66", "\\u1e67", "\\u1e68", "\\u1e69",
    "\\u1e6a", "\\u1e6b", "\\u1e6c", "\\u1e6d", "\\u1e6e", "\\u1e6f", "\\u1e70", "\\u1e71",
    "\\u1e72", "\\u1e73", "\\u1e74", "\\u1e75", "\\u1e76", "\\u1e77", "\\u1e78", "\\u1e79",
    "\\u1e7a", "\\u1e7b", "\\u1e7c", "\\u1e7d", "\\u1e7e", "\\u1e7f", "\\u1e80", "\\u1e81",
    "\\u1e82", "\\u1e83", "\\u1e84", "\\u1e85", "\\u1e86", "\\u1e87", "\\u1e88", "\\u1e89",
    "\\u1e8a", "\\u1e8b", "\\u1e8c", "\\u1e8d", "\\u1e8e", "\\u1e8f", "\\u1e90", "\\u1e91",
    "\\u1e92", "\\u1e93", "\\u1e94", "\\u1e95", "\\u1e96", "\\u1e97", "\\u1e98", "\\u1e99",
    "\\u1e9a", "\\u1e9b", "\\u1e9c", "\\u1e9d", "\\u1e9e", "\\u1e9f", "\\u1ea0", "\\u1ea1",
    "\\u1ea2", "\\u1ea3", "\\u1ea4", "\\u1ea5", "\\u1ea6", "\\u1ea7", "\\u1ea8", "\\u1ea9",
    "\\u1eaa", "\\u1eab", "\\u1eac", "\\u1ead", "\\u1eae", "\\u1eaf", "\\u1eb0", "\\u1eb1",
    "\\u1eb2", "\\u1eb3", "\\u1eb4", "\\u1eb5", "\\u1eb6", "\\u1eb7", "\\u1eb8", "\\u1eb9",
    "\\u1eba", "\\u1ebb", "\\u1ebc", "\\u1ebd", "\\u1ebe", "\\u1ebf", "\\u1ec0", "\\u1ec1",
    "\\u1ec2", "\\u1ec3", "\\u1ec4", "\\u1ec5", "\\u1ec6", "\\u1ec7", "\\u1ec8", "\\u1ec9",
    "\\u1eca", "\\u1ecb", "\\u1ecc", "\\u1ecd", "\\u1ece", "\\u1ecf", "\\u1ed0", "\\u1ed1",
    "\\u1ed2", "\\u1ed3", "\\u1ed4", "\\u1ed5", "\\u1ed6", "\\u1ed7", "\\u1ed8", "\\u1ed9",
    "\\u1eda", "\\u1edb", "\\u1edc", "\\u1edd", "\\u1ede", "\\u1edf", "\\u1ee0", "\\u1ee1",
    "\\u1ee2", "\\u1ee3", "\\u1ee4", "\\u1ee5", "\\u1ee6", "\\u1ee7", "\\u1ee8", "\\u1ee9",
    "\\u1eea", "\\u1eeb", "\\u1eec", "\\u1eed", "\\u1eee", "\\u1eef", "\\u1ef0", "\\u1ef1",
    "\\u1ef2", "\\u1ef3", "\\u1ef4", "\\u1ef5", "\\u1ef6", "\\u1ef7", "\\u1ef8", "\\u1ef9",
    "\\u1efa", "\\u1efb", "\\u1efc", "\\u1efd", "\\u1efe", "\\u1eff", "\\u1f00", "\\u1f01",
    "\\u1f02", "\\u1f03", "\\u1f04", "\\u1f05", "\\u1f06", "\\u1f07", "\\u1f08", "\\u1f09",
    "\\u1f0a", "\\u1f0b", "\\u1f0c", "\\u1f0d", "\\u1f0e", "\\u1f0f", "\\u1f10", "\\u1f11",
    "\\u1f12", "\\u1f13", "\\u1f14", "\\u1f15", "\\u1f18", "\\u1f19", "\\u1f1a", "\\u1f1b",
    "\\u1f1c", "\\u1f1d", "\\u1f20", "\\u1f21", "\\u1f22", "\\u1f23", "\\u1f24", "\\u1f25",
    "\\u1f26", "\\u1f27", "\\u1f28", "\\u1f29", "\\u1f2a", "\\u1f2b", "\\u1f2c", "\\u1f2d",
    "\\u1f2e", "\\u1f2f", "\\u1f30", "\\u1f31", "\\u1f32", "\\u1f33", "\\u1f34", "\\u1f35",
    "\\u1f36", "\\u1f37", "\\u1f38", "\\u1f39", "\\u1f3a", "\\u1f3b", "\\u1f3c", "\\u1f3d",
    "\\u1f3e", "\\u1f3f", "\\u1f40", "\\u1f41", "\\u1f42", "\\u1f43", "\\u1f44", "\\u1f45",
    "\\u1f48", "\\u1f49", "\\u1f4a", "\\u1f4b", "\\u1f4c", "\\u1f4d", "\\u1f50", "\\u1f51",
    "\\u1f52", "\\u1f53", "\\u1f54", "\\u1f55", "\\u1f56", "\\u1f57", "\\u1f59", "\\u1f5b",
    "\\u1f5d", "\\u1f5f", "\\u1f60", "\\u1f61", "\\u1f62", "\\u1f63", "\\u1f64", "\\u1f65",
    "\\u1f66", "\\u1f67", "\\u1f68", "\\u1f69", "\\u1f6a", "\\u1f6b", "\\u1f6c", "\\u1f6d",
    "\\u1f6e", "\\u1f6f", "\\u1f70", "\\u1f71", "\\u1f72", "\\u1f73", "\\u1f74", "\\u1f75",
    "\\u1f76", "\\u1f77", "\\u1f78", "\\u1f79", "\\u1f7a", "\\u1f7b", "\\u1f7c", "\\u1f7d",
    "\\u1f80", "\\u1f81", "\\u1f82", "\\u1f83", "\\u1f84", "\\u1f85", "\\u1f86", "\\u1f87",
    "\\u1f88", "\\u1f89", "\\u1f8a", "\\u1f8b", "\\u1f8c", "\\u1f8d", "\\u1f8e", "\\u1f8f",
    "\\u1f90", "\\u1f91", "\\u1f92", "\\u1f93", "\\u1f94", "\\u1f95", "\\u1f96", "\\u1f97",
    "\\u1f98", "\\u1f99", "\\u1f9a", "\\u1f9b", "\\u1f9c", "\\u1f9d", "\\u1f9e", "\\u1f9f",
    "\\u1fa0", "\\u1fa1", "\\u1fa2", "\\u1fa3", "\\u1fa4", "\\u1fa5", "\\u1fa6", "\\u1fa7",
    "\\u1fa8", "\\u1fa9", "\\u1faa", "\\u1fab", "\\u1fac", "\\u1fad", "\\u1fae", "\\u1faf",
    "\\u1fb0", "\\u1fb1", "\\u1fb2", "\\u1fb3", "\\u1fb4", "\\u1fb6", "\\u1fb7", "\\u1fb8",
    "\\u1fb9", "\\u1fba", "\\u1fbb", "\\u1fbc", "\\u1fbe", "\\u1fc2", "\\u1fc3", "\\u1fc4",
    "\\u1fc6", "\\u1fc7", "\\u1fc8", "\\u1fc9", "\\u1fca", "\\u1fcb", "\\u1fcc", "\\u1fd0",
    "\\u1fd1", "\\u1fd2", "\\u1fd3", "\\u1fd6", "\\u1fd7", "\\u1fd8", "\\u1fd9", "\\u1fda",
    "\\u1fdb", "\\u1fe0", "\\u1fe1", "\\u1fe2", "\\u1fe3", "\\u1fe4", "\\u1fe5", "\\u1fe6",
    "\\u1fe7", "\\u1fe8", "\\u1fe9", "\\u1fea", "\\u1feb", "\\u1fec", "\\u1ff2", "\\u1ff3",
    "\\u1ff4", "\\u1ff6", "\\u1ff7", "\\u1ff8", "\\u1ff9", "\\u1ffa", "\\u1ffb", "\\u1ffc",
    "\\u2102", "\\u2107", "\\u210a", "\\u210b", "\\u210c", "\\u210d", "\\u210e", "\\u210f",
    "\\u2110", "\\u2111", "\\u2112", "\\u2113", "\\u2115", "\\u2119", "\\u211a", "\\u211b",
    "\\u211c", "\\u211d", "\\u2124", "\\u2126", "\\u2128", "\\u212a", "\\u212b", "\\u212c",
    "\\u212d", "\\u212f", "\\u2130", "\\u2131", "\\u2132", "\\u2133", "\\u2134", "\\u2139",
    "\\u213c", "\\u213d", "\\u213e", "\\u213f", "\\u2145", "\\u2146", "\\u2147", "\\u2148",
    "\\u2149", "\\u214e", "\\u2160", "\\u2161", "\\u2162", "\\u2163", "\\u2164", "\\u2165",
    "\\u2166", "\\u2167", "\\u2168", "\\u2169", "\\u216a", "\\u216b", "\\u216c", "\\u216d",
    "\\u216e", "\\u216f", "\\u2170", "\\u2171", "\\u2172", "\\u2173", "\\u2174", "\\u2175",
    "\\u2176", "\\u2177", "\\u2178", "\\u2179", "\\u217a", "\\u217b", "\\u217c", "\\u217d",
    "\\u217e", "\\u217f", "\\u2183", "\\u2184", "\\u24b6", "\\u24b7", "\\u24b8", "\\u24b9",
    "\\u24ba", "\\u24bb", "\\u24bc", "\\u24bd", "\\u24be", "\\u24bf", "\\u24c0", "\\u24c1",
    "\\u24c2", "\\u24c3", "\\u24c4", "\\u24c5", "\\u24c6", "\\u24c7", "\\u24c8", "\\u24c9",
    "\\u24ca", "\\u24cb", "\\u24cc", "\\u24cd", "\\u24ce", "\\u24cf", "\\u24d0", "\\u24d1",
    "\\u24d2", "\\u24d3", "\\u24d4", "\\u24d5", "\\u24d6", "\\u24d7", "\\u24d8", "\\u24d9",
    "\\u24da", "\\u24db", "\\u24dc", "\\u24dd", "\\u24de", "\\u24df", "\\u24e0", "\\u24e1",
    "\\u24e2", "\\u24e3", "\\u24e4", "\\u24e5", "\\u24e6", "\\u24e7", "\\u24e8", "\\u24e9",
    "\\u2c00", "\\u2c01", "\\u2c02", "\\u2c03", "\\u2c04", "\\u2c05", "\\u2c06", "\\u2c07",
    "\\u2c08", "\\u2c09", "\\u2c0a", "\\u2c0b", "\\u2c0c", "\\u2c0d", "\\u2c0e", "\\u2c0f",
    "\\u2c10", "\\u2c11", "\\u2c12", "\\u2c13", "\\u2c14", "\\u2c15", "\\u2c16", "\\u2c17",
    "\\u2c18", "\\u2c19", "\\u2c1a", "\\u2c1b", "\\u2c1c", "\\u2c1d", "\\u2c1e", "\\u2c1f",
    "\\u2c20", "\\u2c21", "\\u2c22", "\\u2c23", "\\u2c24", "\\u2c25", "\\u2c26", "\\u2c27",
    "\\u2c28", "\\u2c29", "\\u2c2a", "\\u2c2b", "\\u2c2c", "\\u2c2d", "\\u2c2e", "\\u2c2f",
    "\\u2c30", "\\u2c31", "\\u2c32", "\\u2c33", "\\u2c34", "\\u2c35", "\\u2c36", "\\u2c37",
    "\\u2c38", "\\u2c39", "\\u2c3a", "\\u2c3b", "\\u2c3c", "\\u2c3d", "\\u2c3e", "\\u2c3f",
    "\\u2c40", "\\u2c41", "\\u2c42", "\\u2c43", "\\u2c44", "\\u2c45", "\\u2c46", "\\u2c47",
    "\\u2c48", "\\u2c49", "\\u2c4a", "\\u2c4b", "\\u2c4c", "\\u2c4d", "\\u2c4e", "\\u2c4f",
    "\\u2c50", "\\u2c51", "\\u2c52", "\\u2c53", "\\u2c54", "\\u2c55", "\\u2c56", "\\u2c57",
    "\\u2c58", "\\u2c59", "\\u2c5a", "\\u2c5b", "\\u2c5c", "\\u2c5d", "\\u2c5e", "\\u2c5f",
    "\\u2c60", "\\u2c61", "\\u2c62", "\\u2c63", "\\u2c64", "\\u2c65", "\\u2c66", "\\u2c67",
    "\\u2c68", "\\u2c69", "\\u2c6a", "\\u2c6b", "\\u2c6c", "\\u2c6d", "\\u2c6e", "\\u2c6f",
    "\\u2c70", "\\u2c71", "\\u2c72", "\\u2c73", "\\u2c74", "\\u2c75", "\\u2c76", "\\u2c77",
    "\\u2c78", "\\u2c79", "\\u2c7a", "\\u2c7b", "\\u2c7e", "\\u2c7f", "\\u2c80", "\\u2c81",
    "\\u2c82", "\\u2c83", "\\u2c84", "\\u2c85", "\\u2c86", "\\u2c87", "\\u2c88", "\\u2c89",
    "\\u2c8a", "\\u2c8b", "\\u2c8c", "\\u2c8d", "\\u2c8e", "\\u2c8f", "\\u2c90", "\\u2c91",
    "\\u2c92", "\\u2c93", "\\u2c94", "\\u2c95", "\\u2c96", "\\u2c97", "\\u2c98", "\\u2c99",
    "\\u2c9a", "\\u2c9b", "\\u2c9c", "\\u2c9d", "\\u2c9e", "\\u2c9f", "\\u2ca0", "\\u2ca1",
    "\\u2ca2", "\\u2ca3", "\\u2ca4", "\\u2ca5", "\\u2ca6", "\\u2ca7", "\\u2ca8", "\\u2ca9",
    "\\u2caa", "\\u2cab", "\\u2cac", "\\u2cad", "\\u2cae", "\\u2caf", "\\u2cb0", "\\u2cb1",
    "\\u2cb2", "\\u2cb3", "\\u2cb4", "\\u2cb5", "\\u2cb6", "\\u2cb7", "\\u2cb8", "\\u2cb9",
    "\\u2cba", "\\u2cbb", "\\u2cbc", "\\u2cbd", "\\u2cbe", "\\u2cbf", "\\u2cc0", "\\u2cc1",
    "\\u2cc2", "\\u2cc3", "\\u2cc4", "\\u2cc5", "\\u2cc6", "\\u2cc7", "\\u2cc8", "\\u2cc9",
    "\\u2cca", "\\u2ccb", "\\u2ccc", "\\u2ccd", "\\u2cce", "\\u2ccf", "\\u2cd0", "\\u2cd1",
    "\\u2cd2", "\\u2cd3", "\\u2cd4", "\\u2cd5", "\\u2cd6", "\\u2cd7", "\\u2cd8", "\\u2cd9",
    "\\u2cda", "\\u2cdb", "\\u2cdc", "\\u2cdd", "\\u2cde", "\\u2cdf", "\\u2ce0", "\\u2ce1",
    "\\u2ce2", "\\u2ce3", "\\u2ce4", "\\u2ceb", "\\u2cec", "\\u2ced", "\\u2cee", "\\u2cf2",
    "\\u2cf3", "\\u2d00", "\\u2d01", "\\u2d02", "\\u2d03", "\\u2d04", "\\u2d05", "\\u2d06",
    "\\u2d07", "\\u2d08", "\\u2d09", "\\u2d0a", "\\u2d0b", "\\u2d0c", "\\u2d0d", "\\u2d0e",
    "\\u2d0f", "\\u2d10", "\\u2d11", "\\u2d12", "\\u2d13", "\\u2d14", "\\u2d15", "\\u2d16",
    "\\u2d17", "\\u2d18", "\\u2d19", "\\u2d1a", "\\u2d1b", "\\u2d1c", "\\u2d1d", "\\u2d1e",
    "\\u2d1f", "\\u2d20", "\\u2d21", "\\u2d22", "\\u2d23", "\\u2d24", "\\u2d25", "\\u2d27",
    "\\u2d2d", "\\ua640", "\\ua641", "\\ua642", "\\ua643", "\\ua644", "\\ua645", "\\ua646",
    "\\ua647", "\\ua648", "\\ua649", "\\ua64a", "\\ua64b", "\\ua64c", "\\ua64d", "\\ua64e",
    "\\ua64f", "\\ua650", "\\ua651", "\\ua652", "\\ua653", "\\ua654", "\\ua655", "\\ua656",
    "\\ua657", "\\ua658", "\\ua659", "\\ua65a", "\\ua65b", "\\ua65c", "\\ua65d", "\\ua65e",
    "\\ua65f", "\\ua660", "\\ua661", "\\ua662", "\\ua663", "\\ua664", "\\ua665", "\\ua666",
    "\\ua667", "\\ua668", "\\ua669", "\\ua66a", "\\ua66b", "\\ua66c", "\\ua66d", "\\ua680",
    "\\ua681", "\\ua682", "\\ua683", "\\ua684", "\\ua685", "\\ua686", "\\ua687", "\\ua688",
    "\\ua689", "\\ua68a", "\\ua68b", "\\ua68c", "\\ua68d", "\\ua68e", "\\ua68f", "\\ua690",
    "\\ua691", "\\ua692", "\\ua693", "\\ua694", "\\ua695", "\\ua696", "\\ua697", "\\ua698",
    "\\ua699", "\\ua69a", "\\ua69b", "\\ua722", "\\ua723", "\\ua724", "\\ua725", "\\ua726",
    "\\ua727", "\\ua728", "\\ua729", "\\ua72a", "\\ua72b", "\\ua72c", "\\ua72d", "\\ua72e",
    "\\ua72f", "\\ua730", "\\ua731", "\\ua732", "\\ua733", "\\ua734", "\\ua735", "\\ua736",
    "\\ua737", "\\ua738", "\\ua739", "\\ua73a", "\\ua73b", "\\ua73c", "\\ua73d", "\\ua73e",
    "\\ua73f", "\\ua740", "\\ua741", "\\ua742", "\\ua743", "\\ua744", "\\ua745", "\\ua746",
    "\\ua747", "\\ua748", "\\ua749", "\\ua74a", "\\ua74b", "\\ua74c", "\\ua74d", "\\ua74e",
    "\\ua74f", "\\ua750", "\\ua751", "\\ua752", "\\ua753", "\\ua754", "\\ua755", "\\ua756",
    "\\ua757", "\\ua758", "\\ua759", "\\ua75a", "\\ua75b", "\\ua75c", "\\ua75d", "\\ua75e",
    "\\ua75f", "\\ua760", "\\ua761", "\\ua762", "\\ua763", "\\ua764", "\\ua765", "\\ua766",
    "\\ua767", "\\ua768", "\\ua769", "\\ua76a", "\\ua76b", "\\ua76c", "\\ua76d", "\\ua76e",
    "\\ua76f", "\\ua771", "\\ua772", "\\ua773", "\\ua774", "\\ua775", "\\ua776", "\\ua777",
    "\\ua778", "\\ua779", "\\ua77a", "\\ua77b", "\\ua77c", "\\ua77d", "\\ua77e", "\\ua77f",
    "\\ua780", "\\ua781", "\\ua782", "\\ua783", "\\ua784", "\\ua785", "\\ua786", "\\ua787",
    "\\ua78b", "\\ua78c", "\\ua78d", "\\ua78e", "\\ua790", "\\ua791", "\\ua792", "\\ua793",
    "\\ua794", "\\ua795", "\\ua796", "\\ua797", "\\ua798", "\\ua799", "\\ua79a", "\\ua79b",
    "\\ua79c", "\\ua79d", "\\ua79e", "\\ua79f", "\\ua7a0", "\\ua7a1", "\\ua7a2", "\\ua7a3",
    "\\ua7a4", "\\ua7a5", "\\ua7a6", "\\ua7a7", "\\ua7a8", "\\ua7a9", "\\ua7aa", "\\ua7ab",
    "\\ua7ac", "\\ua7ad", "\\ua7ae", "\\ua7af", "\\ua7b0", "\\ua7b1", "\\ua7b2", "\\ua7b3",
    "\\ua7b4", "\\ua7b5", "\\ua7b6", "\\ua7b7", "\\ua7b8", "\\ua7b9", "\\ua7ba", "\\ua7bb",
    "\\ua7bc", "\\ua7bd", "\\ua7be", "\\ua7bf", "\\ua7c0", "\\ua7c1", "\\ua7c2", "\\ua7c3",
    "\\ua7c4", "\\ua7c5", "\\ua7c6", "\\ua7c7", "\\ua7c8", "\\ua7c9", "\\ua7ca", "\\ua7cb",
    "\\ua7cc", "\\ua7cd", "\\ua7ce", "\\ua7cf", "\\ua7d0", "\\ua7d1", "\\ua7d2", "\\ua7d3",
    "\\ua7d4", "\\ua7d5", "\\ua7d6", "\\ua7d7", "\\ua7d8", "\\ua7d9", "\\ua7da", "\\ua7db",
    "\\ua7dc", "\\ua7f5", "\\ua7f6", "\\ua7fa", "\\uab30", "\\uab31", "\\uab32", "\\uab33",
    "\\uab34", "\\uab35", "\\uab36", "\\uab37", "\\uab38", "\\uab39", "\\uab3a", "\\uab3b",
    "\\uab3c", "\\uab3d", "\\uab3e", "\\uab3f", "\\uab40", "\\uab41", "\\uab42", "\\uab43",
    "\\uab44", "\\uab45", "\\uab46", "\\uab47", "\\uab48", "\\uab49", "\\uab4a", "\\uab4b",
    "\\uab4c", "\\uab4d", "\\uab4e", "\\uab4f", "\\uab50", "\\uab51", "\\uab52", "\\uab53",
    "\\uab54", "\\uab55", "\\uab56", "\\uab57", "\\uab58", "\\uab59", "\\uab5a", "\\uab60",
    "\\uab61", "\\uab62", "\\uab63", "\\uab64", "\\uab65", "\\uab66", "\\uab67", "\\uab68",
    "\\uab70", "\\uab71", "\\uab72", "\\uab73", "\\uab74", "\\uab75", "\\uab76", "\\uab77",
    "\\uab78", "\\uab79", "\\uab7a", "\\uab7b", "\\uab7c", "\\uab7d", "\\uab7e", "\\uab7f",
    "\\uab80", "\\uab81", "\\uab82", "\\uab83", "\\uab84", "\\uab85", "\\uab86", "\\uab87",
    "\\uab88", "\\uab89", "\\uab8a", "\\uab8b", "\\uab8c", "\\uab8d", "\\uab8e", "\\uab8f",
    "\\uab90", "\\uab91", "\\uab92", "\\uab93", "\\uab94", "\\uab95", "\\uab96", "\\uab97",
    "\\uab98", "\\uab99", "\\uab9a", "\\uab9b", "\\uab9c", "\\uab9d", "\\uab9e", "\\uab9f",
    "\\uaba0", "\\uaba1", "\\uaba2", "\\uaba3", "\\uaba4", "\\uaba5", "\\uaba6", "\\uaba7",
    "\\uaba8", "\\uaba9", "\\uabaa", "\\uabab", "\\uabac", "\\uabad", "\\uabae", "\\uabaf",
    "\\uabb0", "\\uabb1", "\\uabb2", "\\uabb3", "\\uabb4", "\\uabb5", "\\uabb6", "\\uabb7",
    "\\uabb8", "\\uabb9", "\\uabba", "\\uabbb", "\\uabbc", "\\uabbd", "\\uabbe", "\\uabbf",
    "\\ufb00", "\\ufb01", "\\ufb02", "\\ufb03", "\\ufb04", "\\ufb05", "\\ufb06", "\\ufb13",
    "\\ufb14", "\\ufb15", "\\ufb16", "\\ufb17", "\\uff21", "\\uff22", "\\uff23", "\\uff24",
    "\\uff25", "\\uff26", "\\uff27", "\\uff28", "\\uff29", "\\uff2a", "\\uff2b", "\\uff2c",
    "\\uff2d", "\\uff2e", "\\uff2f", "\\uff30", "\\uff31", "\\uff32", "\\uff33", "\\uff34",
    "\\uff35", "\\uff36", "\\uff37", "\\uff38", "\\uff39", "\\uff3a", "\\uff41", "\\uff42",
    "\\uff43", "\\uff44", "\\uff45", "\\uff46", "\\uff47", "\\uff48", "\\uff49", "\\uff4a",
    "\\uff4b", "\\uff4c", "\\uff4d", "\\uff4e", "\\uff4f", "\\uff50", "\\uff51", "\\uff52",
    "\\uff53", "\\uff54", "\\uff55", "\\uff56", "\\uff57", "\\uff58", "\\uff59", "\\uff5a" }

CasedPairs ==
  <<
     [high |-> "\\ud801",
      low |->
        {
          "\\udc00", "\\udc01", "\\udc02", "\\udc03", "\\udc04", "\\udc05", "\\udc06", "\\udc07",
          "\\udc08", "\\udc09", "\\udc0a", "\\udc0b", "\\udc0c", "\\udc0d", "\\udc0e", "\\udc0f",
          "\\udc10", "\\udc11", "\\udc12", "\\udc13", "\\udc14", "\\udc15", "\\udc16", "\\udc17",
          "\\udc18", "\\udc19", "\\udc1a", "\\udc1b", "\\udc1c", "\\udc1d", "\\udc1e", "\\udc1f",
          "\\udc20", "\\udc21", "\\udc22", "\\udc23", "\\udc24", "\\udc25", "\\udc26", "\\udc27",
          "\\udc28", "\\udc29", "\\udc2a", "\\udc2b", "\\udc2c", "\\udc2d", "\\udc2e", "\\udc2f",
          "\\udc30", "\\udc31", "\\udc32", "\\udc33", "\\udc34", "\\udc35", "\\udc36", "\\udc37",
          "\\udc38", "\\udc39", "\\udc3a", "\\udc3b", "\\udc3c", "\\udc3d", "\\udc3e", "\\udc3f",
          "\\udc40", "\\udc41", "\\udc42", "\\udc43", "\\udc44", "\\udc45", "\\udc46", "\\udc47",
          "\\udc48", "\\udc49", "\\udc4a", "\\udc4b", "\\udc4c", "\\udc4d", "\\udc4e", "\\udc4f",
          "\\udcb0", "\\udcb1", "\\udcb2", "\\udcb3", "\\udcb4", "\\udcb5", "\\udcb6", "\\udcb7",
          "\\udcb8", "\\udcb9", "\\udcba", "\\udcbb", "\\udcbc", "\\udcbd", "\\udcbe", "\\udcbf",
          "\\udcc0", "\\udcc1", "\\udcc2", "\\udcc3", "\\udcc4", "\\udcc5", "\\udcc6", "\\udcc7",
          "\\udcc8", "\\udcc9", "\\udcca", "\\udccb", "\\udccc", "\\udccd", "\\udcce", "\\udccf",
          "\\udcd0", "\\udcd1", "\\udcd2", "\\udcd3", "\\udcd8", "\\udcd9", "\\udcda", "\\udcdb",
          "\\udcdc", "\\udcdd", "\\udcde", "\\udcdf", "\\udce0", "\\udce1", "\\udce2", "\\udce3",
          "\\udce4", "\\udce5", "\\udce6", "\\udce7", "\\udce8", "\\udce9", "\\udcea", "\\udceb",
          "\\udcec", "\\udced", "\\udcee", "\\udcef", "\\udcf0", "\\udcf1", "\\udcf2", "\\udcf3",
          "\\udcf4", "\\udcf5", "\\udcf6", "\\udcf7", "\\udcf8", "\\udcf9", "\\udcfa", "\\udcfb",
          "\\udd70", "\\udd71", "\\udd72", "\\udd73", "\\udd74", "\\udd75", "\\udd76", "\\udd77",
          "\\udd78", "\\udd79", "\\udd7a", "\\udd7c", "\\udd7d", "\\udd7e", "\\udd7f", "\\udd80",
          "\\udd81", "\\udd82", "\\udd83", "\\udd84", "\\udd85", "\\udd86", "\\udd87", "\\udd88",
          "\\udd89", "\\udd8a", "\\udd8c", "\\udd8d", "\\udd8e", "\\udd8f", "\\udd90", "\\udd91",
          "\\udd92", "\\udd94", "\\udd95", "\\udd97", "\\udd98", "\\udd99", "\\udd9a", "\\udd9b",
          "\\udd9c", "\\udd9d", "\\udd9e", "\\udd9f", "\\udda0", "\\udda1", "\\udda3", "\\udda4",
          "\\udda5", "\\udda6", "\\udda7", "\\udda8", "\\udda9", "\\uddaa", "\\uddab", "\\uddac",
          "\\uddad", "\\uddae", "\\uddaf", "\\uddb0", "\\uddb1", "\\uddb3", "\\uddb4", "\\uddb5",
          "\\uddb6", "\\uddb7", "\\uddb8", "\\uddb9", "\\uddbb", "\\uddbc" }],
     [high |-> "\\ud803",
      low |->
        {
          "\\udc80", "\\udc81", "\\udc82", "\\udc83", "\\udc84", "\\udc85", "\\udc86", "\\udc87",
          "\\udc88", "\\udc89", "\\udc8a", "\\udc8b", "\\udc8c", "\\udc8d", "\\udc8e", "\\udc8f",
          "\\udc90", "\\udc91", "\\udc92", "\\udc93", "\\udc94", "\\udc95", "\\udc96", "\\udc97",
          "\\udc98", "\\udc99", "\\udc9a", "\\udc9b", "\\udc9c", "\\udc9d", "\\udc9e", "\\udc9f",
          "\\udca0", "\\udca1", "\\udca2", "\\udca3", "\\udca4", "\\udca5", "\\udca6", "\\udca7",
          "\\udca8", "\\udca9", "\\udcaa", "\\udcab", "\\udcac", "\\udcad", "\\udcae", "\\udcaf",
          "\\udcb0", "\\udcb1", "\\udcb2", "\\udcc0", "\\udcc1", "\\udcc2", "\\udcc3", "\\udcc4",
          "\\udcc5", "\\udcc6", "\\udcc7", "\\udcc8", "\\udcc9", "\\udcca", "\\udccb", "\\udccc",
          "\\udccd", "\\udcce", "\\udccf", "\\udcd0", "\\udcd1", "\\udcd2", "\\udcd3", "\\udcd4",
          "\\udcd5", "\\udcd6", "\\udcd7", "\\udcd8", "\\udcd9", "\\udcda", "\\udcdb", "\\udcdc",
          "\\udcdd", "\\udcde", "\\udcdf", "\\udce0", "\\udce1", "\\udce2", "\\udce3", "\\udce4",
          "\\udce5", "\\udce6", "\\udce7", "\\udce8", "\\udce9", "\\udcea", "\\udceb", "\\udcec",
          "\\udced", "\\udcee", "\\udcef", "\\udcf0", "\\udcf1", "\\udcf2", "\\udd50", "\\udd51",
          "\\udd52", "\\udd53", "\\udd54", "\\udd55", "\\udd56", "\\udd57", "\\udd58", "\\udd59",
          "\\udd5a", "\\udd5b", "\\udd5c", "\\udd5d", "\\udd5e", "\\udd5f", "\\udd60", "\\udd61",
          "\\udd62", "\\udd63", "\\udd64", "\\udd65", "\\udd70", "\\udd71", "\\udd72", "\\udd73",
          "\\udd74", "\\udd75", "\\udd76", "\\udd77", "\\udd78", "\\udd79", "\\udd7a", "\\udd7b",
          "\\udd7c", "\\udd7d", "\\udd7e", "\\udd7f", "\\udd80", "\\udd81", "\\udd82", "\\udd83",
          "\\udd84", "\\udd85" }],
     [high |-> "\\ud806",
      low |->
        {
          "\\udca0", "\\udca1", "\\udca2", "\\udca3", "\\udca4", "\\udca5", "\\udca6", "\\udca7",
          "\\udca8", "\\udca9", "\\udcaa", "\\udcab", "\\udcac", "\\udcad", "\\udcae", "\\udcaf",
          "\\udcb0", "\\udcb1", "\\udcb2", "\\udcb3", "\\udcb4", "\\udcb5", "\\udcb6", "\\udcb7",
          "\\udcb8", "\\udcb9", "\\udcba", "\\udcbb", "\\udcbc", "\\udcbd", "\\udcbe", "\\udcbf",
          "\\udcc0", "\\udcc1", "\\udcc2", "\\udcc3", "\\udcc4", "\\udcc5", "\\udcc6", "\\udcc7",
          "\\udcc8", "\\udcc9", "\\udcca", "\\udccb", "\\udccc", "\\udccd", "\\udcce", "\\udccf",
          "\\udcd0", "\\udcd1", "\\udcd2", "\\udcd3", "\\udcd4", "\\udcd5", "\\udcd6", "\\udcd7",
          "\\udcd8", "\\udcd9", "\\udcda", "\\udcdb", "\\udcdc", "\\udcdd", "\\udcde", "\\udcdf" }],
     [high |-> "\\ud81b",
      low |->
        {
          "\\ude40", "\\ude41", "\\ude42", "\\ude43", "\\ude44", "\\ude45", "\\ude46", "\\ude47",
          "\\ude48", "\\ude49", "\\ude4a", "\\ude4b", "\\ude4c", "\\ude4d", "\\ude4e", "\\ude4f",
          "\\ude50", "\\ude51", "\\ude52", "\\ude53", "\\ude54", "\\ude55", "\\ude56", "\\ude57",
          "\\ude58", "\\ude59", "\\ude5a", "\\ude5b", "\\ude5c", "\\ude5d", "\\ude5e", "\\ude5f",
          "\\ude60", "\\ude61", "\\ude62", "\\ude63", "\\ude64", "\\ude65", "\\ude66", "\\ude67",
          "\\ude68", "\\ude69", "\\ude6a", "\\ude6b", "\\ude6c", "\\ude6d", "\\ude6e", "\\ude6f",
          "\\ude70", "\\ude71", "\\ude72", "\\ude73", "\\ude74", "\\ude75", "\\ude76", "\\ude77",
          "\\ude78", "\\ude79", "\\ude7a", "\\ude7b", "\\ude7c", "\\ude7d", "\\ude7e", "\\ude7f",
          "\\udea0", "\\udea1", "\\udea2", "\\udea3", "\\udea4", "\\udea5", "\\udea6", "\\udea7",
          "\\udea8", "\\udea9", "\\udeaa", "\\udeab", "\\udeac", "\\udead", "\\udeae", "\\udeaf",
          "\\udeb0", "\\udeb1", "\\udeb2", "\\udeb3", "\\udeb4", "\\udeb5", "\\udeb6", "\\udeb7",
          "\\udeb8", "\\udebb", "\\udebc", "\\udebd", "\\udebe", "\\udebf", "\\udec0", "\\udec1",
          "\\udec2", "\\udec3", "\\udec4", "\\udec5", "\\udec6", "\\udec7", "\\udec8", "\\udec9",
          "\\udeca", "\\udecb", "\\udecc", "\\udecd", "\\udece", "\\udecf", "\\uded0", "\\uded1",
          "\\uded2", "\\uded3" }],
     [high |-> "\\ud835",
      low |->
        {
          "\\udc00", "\\udc01", "\\udc02", "\\udc03", "\\udc04", "\\udc05", "\\udc06", "\\udc07",
          "\\udc08", "\\udc09", "\\udc0a", "\\udc0b", "\\udc0c", "\\udc0d", "\\udc0e", "\\udc0f",
          "\\udc10", "\\udc11", "\\udc12", "\\udc13", "\\udc14", "\\udc15", "\\udc16", "\\udc17",
          "\\udc18", "\\udc19", "\\udc1a", "\\udc1b", "\\udc1c", "\\udc1d", "\\udc1e", "\\udc1f",
          "\\udc20", "\\udc21", "\\udc22", "\\udc23", "\\udc24", "\\udc25", "\\udc26", "\\udc27",
          "\\udc28", "\\udc29", "\\udc2a", "\\udc2b", "\\udc2c", "\\udc2d", "\\udc2e", "\\udc2f",
          "\\udc30", "\\udc31", "\\udc32", "\\udc33", "\\udc34", "\\udc35", "\\udc36", "\\udc37",
          "\\udc38", "\\udc39", "\\udc3a", "\\udc3b", "\\udc3c", "\\udc3d", "\\udc3e", "\\udc3f",
          "\\udc40", "\\udc41", "\\udc42", "\\udc43", "\\udc44", "\\udc45", "\\udc46", "\\udc47",
          "\\udc48", "\\udc49", "\\udc4a", "\\udc4b", "\\udc4c", "\\udc4d", "\\udc4e", "\\udc4f",
          "\\udc50", "\\udc51", "\\udc52", "\\udc53", "\\udc54", "\\udc56", "\\udc57", "\\udc58",
          "\\udc59", "\\udc5a", "\\udc5b", "\\udc5c", "\\udc5d", "\\udc5e", "\\udc5f", "\\udc60",
          "\\udc61", "\\udc62", "\\udc63", "\\udc64", "\\udc65", "\\udc66", "\\udc67", "\\udc68",
          "\\udc69", "\\udc6a", "\\udc6b", "\\udc6c", "\\udc6d", "\\udc6e", "\\udc6f", "\\udc70",
          "\\udc71", "\\udc72", "\\udc73", "\\udc74", "\\udc75", "\\udc76", "\\udc77", "\\udc78",
          "\\udc79", "\\udc7a", "\\udc7b", "\\udc7c", "\\udc7d", "\\udc7e", "\\udc7f", "\\udc80",
          "\\udc81", "\\udc82", "\\udc83", "\\udc84", "\\udc85", "\\udc86", "\\udc87", "\\udc88",
          "\\udc89", "\\udc8a", "\\udc8b", "\\udc8c", "\\udc8d", "\\udc8e", "\\udc8f", "\\udc90",
          "\\udc91", "\\udc92", "\\udc93", "\\udc94", "\\udc95", "\\udc96", "\\udc97", "\\udc98",
          "\\udc99", "\\udc9a", "\\udc9b", "\\udc9c", "\\udc9e", "\\udc9f", "\\udca2", "\\udca5",
          "\\udca6", "\\udca9", "\\udcaa", "\\udcab", "\\udcac", "\\udcae", "\\udcaf", "\\udcb0",
          "\\udcb1", "\\udcb2", "\\udcb3", "\\udcb4", "\\udcb5", "\\udcb6", "\\udcb7", "\\udcb8",
          "\\udcb9", "\\udcbb", "\\udcbd", "\\udcbe", "\\udcbf", "\\udcc0", "\\udcc1", "\\udcc2",
          "\\udcc3", "\\udcc5", "\\udcc6", "\\udcc7", "\\udcc8", "\\udcc9", "\\udcca", "\\udccb",
          "\\udccc", "\\udccd", "\\udcce", "\\udccf", "\\udcd0", "\\udcd1", "\\udcd2", "\\udcd3",
          "\\udcd4", "\\udcd5", "\\udcd6", "\\udcd7", "\\udcd8", "\\udcd9", "\\udcda", "\\udcdb",
          "\\udcdc", "\\udcdd", "\\udcde", "\\udcdf", "\\udce0", "\\udce1", "\\udce2", "\\udce3",
          "\\udce4", "\\udce5", "\\udce6", "\\udce7", "\\udce8", "\\udce9", "\\udcea", "\\udceb",
          "\\udcec", "\\udced", "\\udcee", "\\udcef", "\\udcf0", "\\udcf1", "\\udcf2", "\\udcf3",
          "\\udcf4", "\\udcf5", "\\udcf6", "\\udcf7", "\\udcf8", "\\udcf9", "\\udcfa", "\\udcfb",
          "\\udcfc", "\\udcfd", "\\udcfe", "\\udcff", "\\udd00", "\\udd01", "\\udd02", "\\udd03",
          "\\udd04", "\\udd05", "\\udd07", "\\udd08", "\\udd09", "\\udd0a", "\\udd0d", "\\udd0e",
          "\\udd0f", "\\udd10", "\\udd11", "\\udd12", "\\udd13", "\\udd14", "\\udd16", "\\udd17",
          "\\udd18", "\\udd19", "\\udd1a", "\\udd1b", "\\udd1c", "\\udd1e", "\\udd1f", "\\udd20",
          "\\udd21", "\\udd22", "\\udd23", "\\udd24", "\\udd25", "\\udd26", "\\udd27", "\\udd28",
          "\\udd29", "\\udd2a", "\\udd2b", "\\udd2c", "\\udd2d", "\\udd2e", "\\udd2f", "\\udd30",
          "\\udd31", "\\udd32", "\\udd33", "\\udd34", "\\udd35", "\\udd36", "\\udd37", "\\udd38",
          "\\udd39", "\\udd3b", "\\udd3c", "\\udd3d", "\\udd3e", "\\udd40", "\\udd41", "\\udd42",
          "\\udd43", "\\udd44", "\\udd46", "\\udd4a", "\\udd4b", "\\udd4c", "\\udd4d", "\\udd4e",
          "\\udd4f", "\\udd50", "\\udd52", "\\udd53", "\\udd54", "\\udd55", "\\udd56", "\\udd57",
          "\\udd58", "\\udd59", "\\udd5a", "\\udd5b", "\\udd5c", "\\udd5d", "\\udd5e", "\\udd5f",
          "\\udd60", "\\udd61", "\\udd62", "\\udd63", "\\udd64", "\\udd65", "\\udd66", "\\udd67",
          "\\udd68", "\\udd69", "\\udd6a", "\\udd6b", "\\udd6c", "\\udd6d", "\\udd6e", "\\udd6f",
          "\\udd70", "\\udd71", "\\udd72", "\\udd73", "\\udd74", "\\udd75", "\\udd76", "\\udd77",
          "\\udd78", "\\udd79", "\\udd7a", "\\udd7b", "\\udd7c", "\\udd7d", "\\udd7e", "\\udd7f",
          "\\udd80", "\\udd81", "\\udd82", "\\udd83", "\\udd84", "\\udd85", "\\udd86", "\\udd87",
          "\\udd88", "\\udd89", "\\udd8a", "\\udd8b", "\\udd8c", "\\udd8d", "\\udd8e", "\\udd8f",
          "\\udd90", "\\udd91", "\\udd92", "\\udd93", "\\udd94", "\\udd95", "\\udd96", "\\udd97",
          "\\udd98", "\\udd99", "\\udd9a", "\\udd9b", "\\udd9c", "\\udd9d", "\\udd9e", "\\udd9f",
          "\\udda0", "\\udda1", "\\udda2", "\\udda3", "\\udda4", "\\udda5", "\\udda6", "\\udda7",
          "\\udda8", "\\udda9", "\\uddaa", "\\uddab", "\\uddac", "\\uddad", "\\uddae", "\\uddaf",
          "\\uddb0", "\\uddb1", "\\uddb2", "\\uddb3", "\\uddb4", "\\uddb5", "\\uddb6", "\\uddb7",
          "\\uddb8", "\\uddb9", "\\uddba", "\\uddbb", "\\uddbc", "\\uddbd", "\\uddbe", "\\uddbf",
          "\\uddc0", "\\uddc1", "\\uddc2", "\\uddc3", "\\uddc4", "\\uddc5", "\\uddc6", "\\uddc7",
          "\\uddc8", "\\uddc9", "\\uddca", "\\uddcb", "\\uddcc", "\\uddcd", "\\uddce", "\\uddcf",
          "\\uddd0", "\\uddd1", "\\uddd2", "\\uddd3", "\\uddd4", "\\uddd5", "\\uddd6", "\\uddd7",
          "\\uddd8", "\\uddd9", "\\uddda", "\\udddb", "\\udddc", "\\udddd", "\\uddde", "\\udddf",
          "\\udde0", "\\udde1", "\\udde2", "\\udde3", "\\udde4", "\\udde5", "\\udde6", "\\udde7",
          "\\udde8", "\\udde9", "\\uddea", "\\uddeb", "\\uddec", "\\udded", "\\uddee", "\\uddef",
          "\\uddf0", "\\uddf1", "\\uddf2", "\\uddf3", "\\uddf4", "\\uddf5", "\\uddf6", "\\uddf7",
          "\\uddf8", "\\uddf9", "\\uddfa", "\\uddfb", "\\uddfc", "\\uddfd", "\\uddfe", "\\uddff",
          "\\ude00", "\\ude01", "\\ude02", "\\ude03", "\\ude04", "\\ude05", "\\ude06", "\\ude07",
          "\\ude08", "\\ude09", "\\ude0a", "\\ude0b", "\\ude0c", "\\ude0d", "\\ude0e", "\\ude0f",
          "\\ude10", "\\ude11", "\\ude12", "\\ude13", "\\ude14", "\\ude15", "\\ude16", "\\ude17",
          "\\ude18", "\\ude19", "\\ude1a", "\\ude1b", "\\ude1c", "\\ude1d", "\\ude1e", "\\ude1f",
          "\\ude20", "\\ude21", "\\ude22", "\\ude23", "\\ude24", "\\ude25", "\\ude26", "\\ude27",
          "\\ude28", "\\ude29", "\\ude2a", "\\ude2b", "\\ude2c", "\\ude2d", "\\ude2e", "\\ude2f",
          "\\ude30", "\\ude31", "\\ude32", "\\ude33", "\\ude34", "\\ude35", "\\ude36", "\\ude37",
          "\\ude38", "\\ude39", "\\ude3a", "\\ude3b", "\\ude3c", "\\ude3d", "\\ude3e", "\\ude3f",
          "\\ude40", "\\ude41", "\\ude42", "\\ude43", "\\ude44", "\\ude45", "\\ude46", "\\ude47",
          "\\ude48", "\\ude49", "\\ude4a", "\\ude4b", "\\ude4c", "\\ude4d", "\\ude4e", "\\ude4f",
          "\\ude50", "\\ude51", "\\ude52", "\\ude53", "\\ude54", "\\ude55", "\\ude56", "\\ude57",
          "\\ude58", "\\ude59", "\\ude5a", "\\ude5b", "\\ude5c", "\\ude5d", "\\ude5e", "\\ude5f",
          "\\ude60", "\\ude61", "\\ude62", "\\ude63", "\\ude64", "\\ude65", "\\ude66", "\\ude67",
          "\\ude68", "\\ude69", "\\ude6a", "\\ude6b", "\\ude6c", "\\ude6d", "\\ude6e", "\\ude6f",
          "\\ude70", "\\ude71", "\\ude72", "\\ude73", "\\ude74", "\\ude75", "\\ude76", "\\ude77",
          "\\ude78", "\\ude79", "\\ude7a", "\\ude7b", "\\ude7c", "\\ude7d", "\\ude7e", "\\ude7f",
          "\\ude80", "\\ude81", "\\ude82", "\\ude83", "\\ude84", "\\ude85", "\\ude86", "\\ude87",
          "\\ude88", "\\ude89", "\\ude8a", "\\ude8b", "\\ude8c", "\\ude8d", "\\ude8e", "\\ude8f",
          "\\ude90", "\\ude91", "\\ude92", "\\ude93", "\\ude94", "\\ude95", "\\ude96", "\\ude97",
          "\\ude98", "\\ude99", "\\ude9a", "\\ude9b", "\\ude9c", "\\ude9d", "\\ude9e", "\\ude9f",
          "\\udea0", "\\udea1", "\\udea2", "\\udea3", "\\udea4", "\\udea5", "\\udea8", "\\udea9",
          "\\udeaa", "\\udeab", "\\udeac", "\\udead", "\\udeae", "\\udeaf", "\\udeb0", "\\udeb1",
          "\\udeb2", "\\udeb3", "\\udeb4", "\\udeb5", "\\udeb6", "\\udeb7", "\\udeb8", "\\udeb9",
          "\\udeba", "\\udebb", "\\udebc", "\\udebd", "\\udebe", "\\udebf", "\\udec0", "\\udec2",
          "\\udec3", "\\udec4", "\\udec5", "\\udec6", "\\udec7", "\\udec8", "\\udec9", "\\udeca",
          "\\udecb", "\\udecc", "\\udecd", "\\udece", "\\udecf", "\\uded0", "\\uded1", "\\uded2",
          "\\uded3", "\\uded4", "\\uded5", "\\uded6", "\\uded7", "\\uded8", "\\uded9", "\\udeda",
          "\\udedc", "\\udedd", "\\udede", "\\udedf", "\\udee0", "\\udee1", "\\udee2", "\\udee3",
          "\\udee4", "\\udee5", "\\udee6", "\\udee7", "\\udee8", "\\udee9", "\\udeea", "\\udeeb",
          "\\udeec", "\\udeed", "\\udeee", "\\udeef", "\\udef0", "\\udef1", "\\udef2", "\\udef3",
          "\\udef4", "\\udef5", "\\udef6", "\\udef7", "\\udef8", "\\udef9", "\\udefa", "\\udefc",
          "\\udefd", "\\udefe", "\\udeff", "\\udf00", "\\udf01", "\\udf02", "\\udf03", "\\udf04",
          "\\udf05", "\\udf06", "\\udf07", "\\udf08", "\\udf09", "\\udf0a", "\\udf0b", "\\udf0c",
          "\\udf0d", "\\udf0e", "\\udf0f", "\\udf10", "\\udf11", "\\udf12", "\\udf13", "\\udf14",
          "\\udf16", "\\udf17", "\\udf18", "\\udf19", "\\udf1a", "\\udf1b", "\\udf1c", "\\udf1d",
          "\\udf1e", "\\udf1f", "\\udf20", "\\udf21", "\\udf22", "\\udf23", "\\udf24", "\\udf25",
          "\\udf26", "\\udf27", "\\udf28", "\\udf29", "\\udf2a", "\\udf2b", "\\udf2c", "\\udf2d",
          "\\udf2e", "\\udf2f", "\\udf30", "\\udf31", "\\udf32", "\\udf33", "\\udf34", "\\udf36",
          "\\udf37", "\\udf38", "\\udf39", "\\udf3a", "\\udf3b", "\\udf3c", "\\udf3d", "\\udf3e",
          "\\udf3f", "\\udf40", "\\udf41", "\\udf42", "\\udf43", "\\udf44", "\\udf45", "\\udf46",
          "\\udf47", "\\udf48", "\\udf49", "\\udf4a", "\\udf4b", "\\udf4c", "\\udf4d", "\\udf4e",
          "\\udf50", "\\udf51", "\\udf52", "\\udf53", "\\udf54", "\\udf55", "\\udf56", "\\udf57",
          "\\udf58", "\\udf59", "\\udf5a", "\\udf5b", "\\udf5c", "\\udf5d", "\\udf5e", "\\udf5f",
          "\\udf60", "\\udf61", "\\udf62", "\\udf63", "\\udf64", "\\udf65", "\\udf66", "\\udf67",
          "\\udf68", "\\udf69", "\\udf6a", "\\udf6b", "\\udf6c", "\\udf6d", "\\udf6e", "\\udf70",
          "\\udf71", "\\udf72", "\\udf73", "\\udf74", "\\udf75", "\\udf76", "\\udf77", "\\udf78",
          "\\udf79", "\\udf7a", "\\udf7b", "\\udf7c", "\\udf7d", "\\udf7e", "\\udf7f", "\\udf80",
          "\\udf81", "\\udf82", "\\udf83", "\\udf84", "\\udf85", "\\udf86", "\\udf87", "\\udf88",
          "\\udf8a", "\\udf8b", "\\udf8c", "\\udf8d", "\\udf8e", "\\udf8f", "\\udf90", "\\udf91",
          "\\udf92", "\\udf93", "\\udf94", "\\udf95", "\\udf96", "\\udf97", "\\udf98", "\\udf99",
          "\\udf9a", "\\udf9b", "\\udf9c", "\\udf9d", "\\udf9e", "\\udf9f", "\\udfa0", "\\udfa1",
          "\\udfa2", "\\udfa3", "\\udfa4", "\\udfa5", "\\udfa6", "\\udfa7", "\\udfa8", "\\udfaa",
          "\\udfab", "\\udfac", "\\udfad", "\\udfae", "\\udfaf", "\\udfb0", "\\udfb1", "\\udfb2",
          "\\udfb3", "\\udfb4", "\\udfb5", "\\udfb6", "\\udfb7", "\\udfb8", "\\udfb9", "\\udfba",
          "\\udfbb", "\\udfbc", "\\udfbd", "\\udfbe", "\\udfbf", "\\udfc0", "\\udfc1", "\\udfc2",
          "\\udfc4", "\\udfc5", "\\udfc6", "\\udfc7", "\\udfc8", "\\udfc9", "\\udfca", "\\udfcb" }],
     [high |-> "\\ud837",
      low |->
        {
          "\\udf00", "\\udf01", "\\udf02", "\\udf03", "\\udf04", "\\udf05", "\\udf06", "\\udf07",
          "\\udf08", "\\udf09", "\\udf0b", "\\udf0c", "\\udf0d", "\\udf0e", "\\udf0f", "\\udf10",
          "\\udf11", "\\udf12", "\\udf13", "\\udf14", "\\udf15", "\\udf16", "\\udf17", "\\udf18",
          "\\udf19", "\\udf1a", "\\udf1b", "\\udf1c", "\\udf1d", "\\udf1e", "\\udf25", "\\udf26",
          "\\udf27", "\\udf28", "\\udf29", "\\udf2a" }],
     [high |-> "\\ud83a",
      low |->
        {
          "\\udd00", "\\udd01", "\\udd02", "\\udd03", "\\udd04", "\\udd05", "\\udd06", "\\udd07",
          "\\udd08", "\\udd09", "\\udd0a", "\\udd0b", "\\udd0c", "\\udd0d", "\\udd0e", "\\udd0f",
          "\\udd10", "\\udd11", "\\udd12", "\\udd13", "\\udd14", "\\udd15", "\\udd16", "\\udd17",
          "\\udd18", "\\udd19", "\\udd1a", "\\udd1b", "\\udd1c", "\\udd1d", "\\udd1e", "\\udd1f",
          "\\udd20", "\\udd21", "\\udd22", "\\udd23", "\\udd24", "\\udd25", "\\udd26", "\\udd27",
          "\\udd28", "\\udd29", "\\udd2a", "\\udd2b", "\\udd2c", "\\udd2d", "\\udd2e", "\\udd2f",
          "\\udd30", "\\udd31", "\\udd32", "\\udd33", "\\udd34", "\\udd35", "\\udd36", "\\udd37",
          "\\udd38", "\\udd39", "\\udd3a", "\\udd3b", "\\udd3c", "\\udd3d", "\\udd3e", "\\udd3f",
          "\\udd40", "\\udd41", "\\udd42", "\\udd43" }],
     [high |-> "\\ud83c",
      low |->
        {
          "\\udd30", "\\udd31", "\\udd32", "\\udd33", "\\udd34", "\\udd35", "\\udd36", "\\udd37",
          "\\udd38", "\\udd39", "\\udd3a", "\\udd3b", "\\udd3c", "\\udd3d", "\\udd3e", "\\udd3f",
          "\\udd40", "\\udd41", "\\udd42", "\\udd43", "\\udd44", "\\udd45", "\\udd46", "\\udd47",
          "\\udd48", "\\udd49", "\\udd50", "\\udd51", "\\udd52", "\\udd53", "\\udd54", "\\udd55",
          "\\udd56", "\\udd57", "\\udd58", "\\udd59", "\\udd5a", "\\udd5b", "\\udd5c", "\\udd5d",
          "\\udd5e", "\\udd5f", "\\udd60", "\\udd61", "\\udd62", "\\udd63", "\\udd64", "\\udd65",
          "\\udd66", "\\udd67", "\\udd68", "\\udd69", "\\udd70", "\\udd71", "\\udd72", "\\udd73",
          "\\udd74", "\\udd75", "\\udd76", "\\udd77", "\\udd78", "\\udd79", "\\udd7a", "\\udd7b",
          "\\udd7c", "\\udd7d", "\\udd7e", "\\udd7f", "\\udd80", "\\udd81", "\\udd82", "\\udd83",
          "\\udd84", "\\udd85", "\\udd86", "\\udd87", "\\udd88", "\\udd89" }] >>

\* LowerOf[c]: the code unit written for the code unit c of CapitalUnits.
LowerOf ==
  [c \in {CapitalUnits[n] : n \in DOMAIN CapitalUnits} |->
     SmallUnits[CHOOSE n \in DOMAIN CapitalUnits : CapitalUnits[n] = c]]

\* Whether the code units a, b are a surrogate pair of the table.
PairIn(table, a, b) ==
  \E n \in DOMAIN table : table[n].high = a /\ b \in table[n].low

\* The second unit written for the surrogate pair a, b; b when the pair is
\* not one of CapitalPairs.
LowerPair(a, b) ==
  LET rows == {n \in DOMAIN CapitalPairs : CapitalPairs[n].high = a}
      row  == CapitalPairs[CHOOSE n \in rows : TRUE]
      at   == {m \in DOMAIN row.capital : row.capital[m] = b}
  IN  IF rows = {} \/ at = {} THEN b ELSE row.small[CHOOSE m \in at : TRUE]

\* Final_Sigma scans over the Case_Ignorable characters around a sigma.
\* The position of the last unit of the nearest character that ends at or
\* before position k and is not Case_Ignorable; 0 when there is none.
RECURSIVE BeforeIgnorables(_, _)
BeforeIgnorables(s, k) ==
  IF k < 1 THEN 0
  ELSE IF k > 1 /\ PairIn(CaseIgnorablePairs, s[k - 1], s[k])
  THEN BeforeIgnorables(s, k - 2)
  ELSE IF s[k] \in CaseIgnorable THEN BeforeIgnorables(s, k - 1)
  ELSE k

\* The position of the first unit of the nearest character that starts at
\* or after position k and is not Case_Ignorable; Len(s) + 1 when there is
\* none.
RECURSIVE AfterIgnorables(_, _)
AfterIgnorables(s, k) ==
  IF k > Len(s) THEN Len(s) + 1
  ELSE IF k < Len(s) /\ PairIn(CaseIgnorablePairs, s[k], s[k + 1])
  THEN AfterIgnorables(s, k + 2)
  ELSE IF s[k] \in CaseIgnorable THEN AfterIgnorables(s, k + 1)
  ELSE k

\* Final_Sigma of SpecialCasing.txt for the sigma at position k: a cased
\* letter comes before it and none after it, Case_Ignorable characters
\* apart.
FinalSigma(s, k) ==
  LET b == BeforeIgnorables(s, k - 1)
      a == AfterIgnorables(s, k + 1)
  IN  /\ b >= 1
      /\ s[b] \in Cased \/ (b > 1 /\ PairIn(CasedPairs, s[b - 1], s[b]))
      /\ ~ /\ a <= Len(s)
           /\ s[a] \in Cased \/ (a < Len(s) /\ PairIn(CasedPairs, s[a], s[a + 1]))

\* What toLowerCase writes for the code unit at position k of s: the small
\* sigma, final or not, for the capital sigma; two code units for the
\* capital I with dot above; the second unit of the small letter for that
\* of a capital pair.
LowerUnit(s, k) ==
  IF s[k] = "\\u03a3"
  THEN IF FinalSigma(s, k) THEN <<"\\u03c2">> ELSE <<"\\u03c3">>
  ELSE IF s[k] = "\\u0130" THEN <<"i", "\\u0307">>
  ELSE IF k > 1 /\ LowerPair(s[k - 1], s[k]) # s[k] THEN <<LowerPair(s[k - 1], s[k])>>
  ELSE IF s[k] \in DOMAIN LowerOf THEN <<LowerOf[s[k]]>>
  ELSE <<s[k]>>

RECURSIVE LowerFrom(_, _)
LowerFrom(s, k) ==
  IF k > Len(s) THEN <<>> ELSE LowerUnit(s, k) \o LowerFrom(s, k + 1)

\* String.prototype.toLowerCase
toLowerCase(s) == LowerFrom(s, 1)

(* ---------------------------------------------------------------------- *)
(* extractCBNumber (src/src/App.tsx, lines 273-309)                       *)
(* ---------------------------------------------------------------------- *)

\* Longest title, in phrases, that the specifications draw.
MaxPhrases == 3

UpperLetters == <<"A", "B", "C", "D", "E", "F", "G", "H", "I", "J", "K", "L", "M", "N", "O", "P", "Q", "R", "S", "T", "U", "V", "W", "X", "Y", "Z">>

LowerLetters == <<"a", "b", "c", "d", "e", "f", "g", "h", "i", "j", "k", "l", "m", "n", "o", "p", "q", "r", "s", "t", "u", "v", "w", "x", "y", "z">>

\* Characters of a word (\w), between which \b finds no boundary.
WordChars ==
  {UpperLetters[k] : k \in 1..Len(UpperLetters)}
    \cup {LowerLetters[k] : k \in 1..Len(LowerLetters)} \cup Digits \cup {"_"}

\* Canonicalize of the i flag of a pattern without the u flag whose
\* letters are of Basic Latin: a letter of Basic Latin matches in either
\* case, and no other character matches one.
IgnoreCase(s) ==
  [k \in 1..Len(s) |->
     IF \E n \in 1..Len(UpperLetters) : UpperLetters[n] = s[k]
     THEN LowerLetters[CHOOSE n \in 1..Len(UpperLetters) : UpperLetters[n] = s[k]]
     ELSE s[k]]

\* The maximal run of digits of s that starts at position p (\d+).
DigitRun(s, p) ==
  LET stop == {k \in p..Len(s) : s[k] \notin Digits}
  IN  SubSeq(s, p, IF stop = {} THEN Len(s) ELSE MinOf(stop) - 1)

\* The position of the digits of /keyword\s*(\d+)/i, or with hash
\* /keyword\s*#(\d+)/i, for the keyword at position k of s; 0 when the
\* pattern does not match there.
DigitsAfter(s, k, keyword, hash) ==
  LET from == k + Len(keyword)
      rest == {p \in from..Len(s) : s[p] \notin WhiteSpace}
      p    == IF rest = {} THEN Len(s) + 1 ELSE MinOf(rest)
      q    == IF hash /\ p <= Len(s) /\ s[p] = "#" THEN p + 1
              ELSE IF hash THEN Len(s) + 1 ELSE p
  IN  IF q <= Len(s) /\ s[q] \in Digits THEN q ELSE 0

\* s.match(pattern): the group of the leftmost match, <<>> when there is
\* none (a match always captures at least one digit).
PatternCapture(s, pattern) ==
  LET at == {k \in Occurrences(IgnoreCase(s), pattern.keyword) :
               DigitsAfter(s, k, pattern.keyword, pattern.hash) > 0}
  IN  IF at = {} THEN <<>>
      ELSE DigitRun(s, DigitsAfter(s, MinOf(at), pattern.keyword, pattern.hash))

\* The list with the Board pattern moved to the front.
patternsBoardFirst ==
  << [keyword |-> <<"b", "o", "a", "r", "d">>,           hash |-> FALSE],
     [keyword |-> <<"c", "b">>,              hash |-> FALSE],
     [keyword |-> <<"c", "o", "m", "m", "u", "n", "i", "t", "y", " ", "b", "o", "a", "r", "d">>, hash |-> FALSE],
     [keyword |-> <<"c", "o", "m", "m", "u", "n", "i", "t", "y", " ", "b", "o", "a", "r", "d">>, hash |-> TRUE],
     [keyword |-> <<"m", "c", "b">>,             hash |-> FALSE],
     [keyword |-> <<"d", "i", "s", "t", "r", "i", "c", "t">>,        hash |-> FALSE] >>

\* const patterns
patterns ==
  << [keyword |-> <<"c", "b">>,              hash |-> FALSE],
     [keyword |-> <<"c", "o", "m", "m", "u", "n", "i", "t", "y", " ", "b", "o", "a", "r", "d">>, hash |-> FALSE],
     [keyword |-> <<"c", "o", "m", "m", "u", "n", "i", "t", "y", " ", "b", "o", "a", "r", "d">>, hash |-> TRUE],
     [keyword |-> <<"m", "c", "b">>,             hash |-> FALSE],
     [keyword |-> <<"b", "o", "a", "r", "d">>,           hash |-> FALSE],
     [keyword |-> <<"d", "i", "s", "t", "r", "i", "c", "t">>,        hash |-> FALSE] >>

\* \b at the gap before position k of s (between s[k-1] and s[k]).
WordBoundary(s, k) ==
  LET before == k > 1 /\ s[k - 1] \in WordChars
      after  == k <= Len(s) /\ s[k] \in WordChars
  IN  before # after

\* The length of the match of ([1-9]|1[0-2])\b at position k of s, 0 when
\* there is none.
NumberAt(s, k) ==
  IF s[k] \in (Digits \ {"0"}) /\ WordBoundary(s, k + 1) THEN 1
  ELSE IF /\ s[k] = "1" /\ k + 1 <= Len(s) /\ s[k + 1] \in {"0", "1", "2"}
          /\ WordBoundary(s, k + 2) THEN 2
  ELSE 0

\* title.match(/\b([1-9]|1[0-2])\b/): the group of the leftmost match, <<>>
\* when there is none.
numberMatch(s) ==
  LET at == {k \in 1..Len(s) : WordBoundary(s, k) /\ NumberAt(s, k) > 0}
  IN  IF at = {} THEN <<>>
      ELSE SubSeq(s, MinOf(at), MinOf(at) + NumberAt(s, MinOf(at)) - 1)

\* Object.entries(cbNames), in insertion order.
cbNames ==
  << [area |-> <<"m", "a", "n", "h", "a", "t", "t", "a", "n">>,          number |-> <<"?">>],
     [area |-> <<"u", "p", "p", "e", "r", " ", "w", "e", "s", "t", " ", "s", "i", "d", "e">>,    number |-> <<"7">>],
     [area |-> <<"u", "p", "p", "e", "r", " ", "e", "a", "s", "t", " ", "s", "i", "d", "e">>,    number |-> <<"8">>],
     [area |-> <<"h", "a", "r", "l", "e", "m">>,             number |-> <<"9">>],
     [area |-> <<"c", "e", "n", "t", "r", "a", "l", " ", "h", "a", "r", "l", "e", "m">>,     number |-> <<"1", "0">>],
     [area |-> <<"e", "a", "s", "t", " ", "h", "a", "r", "l", "e", "m">>,        number |-> <<"1", "1">>],
     [area |-> <<"w", "a", "s", "h", "i", "n", "g", "t", "o", "n", " ", "h", "e", "i", "g", "h", "t", "s">>, number |-> <<"1", "2">>] >>

\* return value
Return(value) ==
  /\ cbNumber' = value
  /\ xpc' = "returned"
  /\ UNCHANGED xi

\* One iteration of 'for (const pattern of patterns)'.
TryPattern ==
  /\ xpc = "patterns"
  /\ LET match == PatternCapture(title, patterns[xi])
     IN  IF match # <<>> THEN Return(match)
         ELSE /\ UNCHANGED cbNumber
              /\ IF xi < Len(patterns) THEN xi' = xi + 1 /\ UNCHANGED xpc
                 ELSE xi' = 1 /\ xpc' = "number"
  /\ UNCHANGED <<title, lines, i, date, overviewText, sentiment, attendance, sections,
                 currentSection, currentSubsection, inOverview, sectionCounter, pc,
                 headerInfo, parsedSections, analysis>>
  /\ UNCHANGED uiVars

\* The bare-number rule without the test for 'board'.
BareNumberRuleAnyTitle ==
  /\ xpc = "number"
  /\ IF numberMatch(title) # <<>>
     THEN Return(numberMatch(title))
     ELSE xpc' = "names" /\ xi' = 1 /\ UNCHANGED cbNumber
  /\ UNCHANGED <<title, lines, i, date, overviewText, sentiment, attendance, sections,
                 currentSection, currentSubsection, inOverview, sectionCounter, pc,
                 headerInfo, parsedSections, analysis>>
  /\ UNCHANGED uiVars

\* const numberMatch = ...; if (numberMatch && ...includes('board'))
BareNumberRule ==
  /\ xpc = "number"
  /\ IF numberMatch(title) # <<>> /\ includes(toLowerCase(title), <<"b", "o", "a", "r", "d">>)
     THEN Return(numberMatch(title))
     ELSE xpc' = "names" /\ xi' = 1 /\ UNCHANGED cbNumber
  /\ UNCHANGED <<title, lines, i, date, overviewText, sentiment, attendance, sections,
                 currentSection, currentSubsection, inOverview, sectionCounter, pc,
                 headerInfo, parsedSections, analysis>>
  /\ UNCHANGED uiVars

\* One iteration of 'for (const [area, number] of Object.entries(cbNames))'.
LookupName ==
  /\ xpc = "names"
  /\ xi <= Len(cbNames)
  /\ IF includes(toLowerCase(title), cbNames[xi].area) THEN Return(cbNames[xi].number)
     ELSE xi' = xi + 1 /\ UNCHANGED <<xpc, cbNumber>>
  /\ UNCHANGED <<title, lines, i, date, overviewText, sentiment, attendance, sections,
                 currentSection, currentSubsection, inOverview, sectionCounter, pc,
                 headerInfo, parsedSections, analysis>>
  /\ UNCHANGED uiVars

\* The fall-through returning a number.
ReturnEmptyAsZero ==
  /\ xpc = "names"
  /\ xi > Len(cbNames)
  /\ Return(<<"0">>)
  /\ UNCHANGED <<title, lines, i, date, overviewText, sentiment, attendance, sections,
                 currentSection, currentSubsection, inOverview, sectionCounter, pc,
                 headerInfo, parsedSections, analysis>>
  /\ UNCHANGED uiVars

\* return ''
ReturnEmpty ==
  /\ xpc = "names"
  /\ xi > Len(cbNames)
  /\ Return(EmptyString)
  /\ UNCHANGED <<title, lines, i, date, overviewText, sentiment, attendance, sections,
                 currentSection, currentSubsection, inOverview, sectionCounter, pc,
                 headerInfo, parsedSections, analysis>>
  /\ UNCHANGED uiVars

NextExtract == TryPattern \/ BareNumberRule \/ LookupName \/ ReturnEmpty

\* The titles of at most MaxPhrases phrases of a vocabulary, separated by
\* single spaces.
RECURSIVE JoinPhrases(_)
JoinPhrases(ps) ==
  IF Len(ps) = 1 THEN ps[1] ELSE ps[1] \o <<" ">> \o JoinPhrases(Tail(ps))

Titles(vocabulary) ==
  {JoinPhrases(ps) : ps \in UNION {[1..n -> vocabulary] : n \in 1..MaxPhrases}}

\* A call of extractCBNumber with a title of the vocabulary; no document
\* is parsed.
InitExtract(vocabulary) ==
  /\ title \in Titles(vocabulary)
  /\ xpc = "patterns"
  /\ xi = 1
  /\ cbNumber = NULL
  /\ lines = <<EmptyString>>
  /\ analysis = NULL
  /\ pc = "idle"
  /\ ParserStart
  /\ UiIdle

(* ---------------------------------------------------------------------- *)
(* Titles the extractor is called with                                    *)
(* ---------------------------------------------------------------------- *)

PhCB7 == <<"C", "B", "7">>
PhCommunityBoard3 == <<"M", "a", "n", "h", "a", "t", "t", "a", "n", " ", "C", "o", "m", "m", "u", "n", "i", "t", "y", " ", "B", "o", "a", "r", "d", " ", "#", "3">>
PhDistrict75 == <<"D", "i", "s", "t", "r", "i", "c", "t", " ", "7", "5">>
PhBoard9 == <<"b", "o", "a", "r", "d", " ", "9">>
PhFullBoardMeeting == <<"F", "u", "l", "l", " ", "B", "o", "a", "r", "d", " ", "M", "e", "e", "t", "i", "n", "g">>
PhMarch12 == <<"M", "a", "r", "c", "h", " ", "1", "2">>
PhTownHall == <<"T", "o", "w", "n", " ", "H", "a", "l", "l", " ", "o", "n", " ", "C", "l", "i", "m", "a", "t", "e">>
PhDistrictMeeting == <<"D", "i", "s", "t", "r", "i", "c", "t", " ", "M", "e", "e", "t", "i", "n", "g">>
PhRoom13 == <<"R", "o", "o", "m", " ", "1", "3">>
Ph7pm == <<"7", " ", "p", "m">>
Ph7thAvenue == <<"7", "t", "h", " ", "A", "v", "e", "n", "u", "e">>
PhHarlem == <<"H", "a", "r", "l", "e", "m">>
PhCentralHarlem == <<"C", "e", "n", "t", "r", "a", "l", " ", "H", "a", "r", "l", "e", "m">>
PhEastHarlem == <<"E", "a", "s", "t", " ", "H", "a", "r", "l", "e", "m">>
PhUpperWestSide == <<"U", "p", "p", "e", "r", " ", "W", "e", "s", "t", " ", "S", "i", "d", "e">>
PhUpperEastSide == <<"U", "p", "p", "e", "r", " ", "E", "a", "s", "t", " ", "S", "i", "d", "e">>
PhWashingtonHeights == <<"W", "a", "s", "h", "i", "n", "g", "t", "o", "n", " ", "H", "e", "i", "g", "h", "t", "s">>
PhHousingForum == <<"H", "o", "u", "s", "i", "n", "g", " ", "F", "o", "r", "u", "m">>

VocabPatterns ==
  {PhCB7, PhCommunityBoard3, PhDistrict75, PhBoard9, PhFullBoardMeeting, PhMarch12,
   PhUpperWestSide, PhHousingForum}

InitPatterns == InitExtract(VocabPatterns)

SpecPatterns == InitPatterns /\ [][NextExtract]_vars

VocabNumber ==
  {PhFullBoardMeeting, PhMarch12, Ph7pm, PhRoom13, PhDistrictMeeting, PhTownHall,
   PhHarlem, Ph7thAvenue}

InitNumber == InitExtract(VocabNumber)

SpecNumber == InitNumber /\ [][NextExtract]_vars

VocabNames ==
  {PhUpperWestSide, PhUpperEastSide, PhHarlem, PhCentralHarlem, PhEastHarlem,
   PhWashingtonHeights, PhTownHall}

InitNames == InitExtract(VocabNames)

SpecNames == InitNames /\ [][NextExtract]_vars

(* ---------------------------------------------------------------------- *)
(* generateMarkdownFromAnalysis (src/src/App.tsx, lines 69-114)           *)
(* ---------------------------------------------------------------------- *)

DecimalDigits == <<"0", "1", "2", "3", "4", "5", "6", "7", "8", "9">>

\* The decimal notation of a natural number, as a template literal writes it.
RECURSIVE NumberToString(_)
NumberToString(n) ==
  IF n < Len(DecimalDigits) THEN <<DecimalDigits[n + 1]>>
  ELSE NumberToString(n \div Len(DecimalDigits))
         \o <<DecimalDigits[(n % Len(DecimalDigits)) + 1]>>

\* analysis.keyDecisions.forEach body
DecisionMarkdown(decision) ==
  <<"#", "#", "#", " ">> \o decision.item \o <<"\n">>
    \o <<"-", " ", "*", "*", "O", "u", "t", "c", "o", "m", "e", ":", "*", "*", " ">> \o decision.outcome \o <<"\n">>
    \o (IF decision.vote # EmptyString
        THEN <<"-", " ", "*", "*", "V", "o", "t", "e", ":", "*", "*", " ">> \o decision.vote \o <<"\n">> ELSE EmptyString)
    \o (IF decision.details # EmptyString
        THEN <<"-", " ", "*", "*", "D", "e", "t", "a", "i", "l", "s", ":", "*", "*", " ">> \o decision.details \o <<"\n">> ELSE EmptyString)
    \o <<"\n">>

\* analysis.keyDecisions.forEach
RECURSIVE DecisionsMarkdown(_)
DecisionsMarkdown(decisions) ==
  IF decisions = <<>> THEN EmptyString
  ELSE DecisionMarkdown(Head(decisions)) \o DecisionsMarkdown(Tail(decisions))

\* analysis.mainTopics.forEach from index idx - 1 on
RECURSIVE TopicsMarkdown(_, _)
TopicsMarkdown(topics, idx) ==
  IF idx > Len(topics) THEN EmptyString
  ELSE NumberToString(idx) \o <<".", " ">> \o topics[idx] \o <<"\n">>
         \o TopicsMarkdown(topics, idx + 1)

\* analysis.publicConcerns.forEach and analysis.nextSteps.forEach
RECURSIVE BulletsMarkdown(_)
BulletsMarkdown(texts) ==
  IF texts = <<>> THEN EmptyString
  ELSE <<"-", " ">> \o Head(texts) \o <<"\n">> \o BulletsMarkdown(Tail(texts))

\* The document written for an analysis on the day today.
generateMarkdownFromAnalysis(a, today) ==
  <<"#", " ", "C", "o", "m", "m", "u", "n", "i", "t", "y", " ", "B", "o", "a", "r", "d", " ", "M", "e", "e", "t", "i", "n", "g", ",", " ", "A", "n", "a", "l", "y", "z", "e", "d", " ", "o", "n", ":", " ">> \o today \o <<"\n", "\n">>
    \o <<"#", "#", " ", "M", "e", "e", "t", "i", "n", "g", " ", "O", "v", "e", "r", "v", "i", "e", "w">> \o <<"\n", "\n">>
    \o a.summary \o <<"\n", "\n">>
    \o <<"*", "*", "O", "v", "e", "r", "a", "l", "l", " ", "S", "e", "n", "t", "i", "m", "e", "n", "t", ":", "*", "*", " ">> \o a.sentiment \o <<"\n">>
    \o <<"*", "*", "A", "t", "t", "e", "n", "d", "a", "n", "c", "e", ":", "*", "*", " ">> \o a.attendance \o <<"\n", "\n">>
    \o (IF Len(a.keyDecisions) > 0
        THEN <<"#", "#", " ", "K", "e", "y", " ", "D", "e", "c", "i", "s", "i", "o", "n", "s">> \o <<"\n", "\n">>
               \o DecisionsMarkdown(a.keyDecisions)
        ELSE EmptyString)
    \o (IF Len(a.mainTopics) > 0
        THEN <<"#", "#", " ", "M", "a", "i", "n", " ", "T", "o", "p", "i", "c", "s", " ", "D", "i", "s", "c", "u", "s", "s", "e", "d">> \o <<"\n", "\n">>
               \o TopicsMarkdown(a.mainTopics, 1) \o <<"\n">>
        ELSE EmptyString)
    \o (IF Len(a.publicConcerns) > 0
        THEN <<"#", "#", " ", "P", "u", "b", "l", "i", "c", " ", "C", "o", "n", "c", "e", "r", "n", "s">> \o <<"\n", "\n">>
               \o BulletsMarkdown(a.publicConcerns) \o <<"\n">>
        ELSE EmptyString)
    \o (IF Len(a.nextSteps) > 0
        THEN <<"#", "#", " ", "N", "e", "x", "t", " ", "S", "t", "e", "p", "s", " ", "/", " ", "A", "c", "t", "i", "o", "n", " ", "I", "t", "e", "m", "s">> \o <<"\n", "\n">>
               \o BulletsMarkdown(a.nextSteps) \o <<"\n">>
        ELSE EmptyString)

\* markdown.split('\n')
RECURSIVE SplitLines(_)
SplitLines(markdown) ==
  LET breaks == {k \in 1..Len(markdown) : markdown[k] = "\n"}
  IN  IF breaks = {} THEN <<markdown>>
      ELSE <<SubSeq(markdown, 1, MinOf(breaks) - 1)>>
             \o SplitLines(SubSeq(markdown, MinOf(breaks) + 1, Len(markdown)))

\* Days on which a document is generated (toISOString().split('T')[0]).
Dates == {<<"2", "0", "2", "5", "-", "0", "1", "-", "0", "5">>, <<"2", "0", "2", "4", "-", "1", "2", "-", "3", "1">>}

\* <MarkdownRenderer markdown={analysis.summary_markdown ||
\* generateMarkdownFromAnalysis(analysis)} /> for an analysis without
\* summary_markdown: the document is generated and handed to the parser.
GenerateMarkdown ==
  /\ pc = "generate"
  /\ \E today \in Dates :
       lines' = SplitLines(generateMarkdownFromAnalysis(analysis, today))
  /\ pc' = "scan"
  /\ UNCHANGED <<i, date, overviewText, sentiment, attendance, sections,
                 currentSection, currentSubsection, inOverview, sectionCounter,
                 headerInfo, parsedSections, analysis>>
  /\ UNCHANGED extractorVars
  /\ UNCHANGED uiVars

NextGenerated == GenerateMarkdown \/ ScanLine \/ Flush

StrRezoning == <<"R", "e", "z", "o", "n", "i", "n", "g">>
StrApproved == <<"A", "p", "p", "r", "o", "v", "e", "d">>
StrVote == <<"9", "-", "2">>
StrNoise == <<"N", "o", "i", "s", "e">>

\* Analysis records as handleSelectMeeting and the analysis service build
\* them (summary '' is line 135 for a record without summary).
Analyses ==
  [ summary        : {EmptyString, StrBudgetTalk},
    sentiment      : {StrPositive, StrMixed},
    attendance     : {Str40, NotSpecified},
    keyDecisions   : { <<>>,
                       << [item |-> StrRezoning, outcome |-> StrApproved,
                           vote |-> EmptyString, details |-> EmptyString] >>,
                       << [item |-> StrRezoning, outcome |-> StrApproved,
                           vote |-> StrVote, details |-> StrVotePassed] >> },
    mainTopics     : {<<>>, <<StrZoning>>, <<StrZoning, StrParks>>},
    publicConcerns : {<<>>, <<StrNoise>>},
    nextSteps      : {<<>>, <<StrFormGroup>>} ]

InitGenerated ==
  /\ analysis \in Analyses
  /\ pc = "generate"
  /\ lines = <<EmptyString>>
  /\ ExtractorIdle
  /\ ParserStart
  /\ UiIdle

SpecGenerated == InitGenerated /\ [][NextGenerated]_vars

(* ---------------------------------------------------------------------- *)
(* The split-based renderer: sections                                     *)
(* (src/src/components/MarkdownRenderer.tsx, lines 10 and 32-85)          *)
(* ---------------------------------------------------------------------- *)

\* The elements of a set of numbers in increasing order.
RECURSIVE Ascending(_)
Ascending(S) ==
  IF S = {} THEN <<>> ELSE <<MinOf(S)>> \o Ascending(S \ {MinOf(S)})

\* The matches of /^## /m: '## ' at the start of the document or of a line.
SectionMarks(markdown) ==
  {k \in Occurrences(markdown, <<"#", "#", " ">>) :
     k = 1 \/ markdown[k - 1] \in LineTerminators}

\* markdown.split(/^## /m).filter(Boolean): the non-empty pieces between
\* the matches.
SplitSections(markdown) ==
  LET marks  == SectionMarks(markdown)
      starts == Ascending({1} \cup {m + Len(<<"#", "#", " ">>) : m \in marks})
      piece(a) ==
        SubSeq(markdown, a,
               MinOf({m - 1 : m \in {n \in marks : n >= a}} \cup {Len(markdown)}))
      pieces == IF markdown = EmptyString THEN <<EmptyString>>
                ELSE [k \in 1..Len(starts) |-> piece(starts[k])]
  IN  SelectSeq(pieces, LAMBDA p : p # EmptyString)

\* Length of the match of /^\d+\.\s*/ at the start of s, 0 when none.
NumberPrefixMatch(s) ==
  LET nondigit == {k \in 1..Len(s) : s[k] \notin Digits}
  IN  IF nondigit = {} THEN 0
      ELSE LET k == MinOf(nondigit)
           IN  IF k > 1 /\ s[k] = "."
               THEN LET rest == {p \in (k + 1)..Len(s) : s[p] \notin WhiteSpace}
                    IN  IF rest = {} THEN Len(s) ELSE MinOf(rest) - 1
               ELSE 0

\* The loop of processSection from line idx on.
RECURSIVE ProcessLines(_, _, _, _)
ProcessLines(content, subsection, doc, idx) ==
  IF idx > Len(doc) THEN content
  ELSE LET r == SectionContent(content, subsection, doc, idx, trim(doc[idx]))
       IN  ProcessLines(r.section, r.subsection, doc, r.last + 1)

\* const processSection = (section: string) => ...
processSection(section) ==
  LET doc == SplitLines(trim(section))
      content == [title       |-> substring(doc[1], NumberPrefixMatch(doc[1])),
                  speakers    |-> EmptyString,
                  sentiment   |-> EmptyString,
                  summary     |-> EmptyString,
                  decisions   |-> <<>>,
                  actionItems |-> <<>>]
  IN  ProcessLines(content, "", doc, 2)

\* const parsedSections = sections.map(processSection), rendered one
\* numbered block per element.
ProcessSections ==
  /\ headerInfo # NULL
  /\ parsedSections = NULL
  /\ LET split == SplitSections(JoinLines(lines))
     IN  parsedSections' =
           [rendered |-> [k \in 1..Len(split) |-> processSection(split[k])]]
  /\ UNCHANGED <<lines, i, date, overviewText, sentiment, attendance, sections,
                 currentSection, currentSubsection, inOverview, sectionCounter, pc,
                 headerInfo, analysis>>
  /\ UNCHANGED extractorVars
  /\ UNCHANGED uiVars

NextSplit == ExtractHeader \/ ProcessSections

VocabSplit == {LnTitle, LnOverview, LnText, LnTopic1, LnSummary}

InitSplit == InitOver(VocabSplit)

SpecSplit == InitSplit /\ [][NextSplit]_vars

(* ---------------------------------------------------------------------- *)
(* App (src/src/App.tsx)                                                  *)
(* ---------------------------------------------------------------------- *)

\* Most processing requests awaiting their response at a time.
MaxRequests == 2

\* extractCBNumber as a function of the title.
extractCBNumber(t) ==
  LET matching == {k \in DOMAIN patterns : PatternCapture(t, patterns[k]) # <<>>}
      named    == {k \in DOMAIN cbNames : includes(toLowerCase(t), cbNames[k].area)}
  IN  IF matching # {} THEN PatternCapture(t, patterns[MinOf(matching)])
      ELSE IF numberMatch(t) # <<>> /\ includes(toLowerCase(t), <<"b", "o", "a", "r", "d">>)
      THEN numberMatch(t)
      ELSE IF named # {} THEN cbNames[MinOf(named)].number
      ELSE EmptyString

\* The value of a string of decimal digits.
RECURSIVE DigitsValue(_)
DigitsValue(s) ==
  IF s = <<>> THEN 0
  ELSE DigitsValue(SubSeq(s, 1, Len(s) - 1)) * Len(DecimalDigits)
         + (CHOOSE d \in 0..(Len(DecimalDigits) - 1) : DecimalDigits[d + 1] = s[Len(s)])

\* parseInt(s): the value of the digits s starts with, after white space;
\* NaN when there are none.
parseInt(s) ==
  LET t == SkipSpace(s)
  IN  IF t = <<>> \/ t[1] \notin Digits THEN NoNumber
      ELSE DigitsValue(DigitRun(t, 1))

\* a || b for strings
OrElse(a, b) == IF a = EmptyString THEN b ELSE a

\* Texts a backend sends as meeting.analysis.
GoodJson ==
  "{\"summary\":\"Budget talk\",\"sentiment\":\"Positive\",\"attendance\":\"40\",\"mainTopics\":[\"Zoning\"]}"
BadJson == "{summary: Budget talk"

\* The analysis object of the responses, which is also what GoodJson
\* parses to; a property that is missing is written as the empty value,
\* which || treats alike.
FullAnalysis ==
  [summary |-> StrBudgetTalk, sentiment |-> StrPositive, attendance |-> Str40,
   keyDecisions |-> <<>>, mainTopics |-> <<StrZoning>>, publicConcerns |-> <<>>,
   nextSteps |-> <<>>, summary_markdown |-> EmptyString]

\* What reading the properties of a string gives: all undefined.
NoProperties ==
  [summary |-> EmptyString, sentiment |-> EmptyString, attendance |-> EmptyString,
   keyDecisions |-> <<>>, mainTopics |-> <<>>, publicConcerns |-> <<>>,
   nextSteps |-> <<>>, summary_markdown |-> EmptyString]

\* JSON.parse(text): the value, or thrown, for the texts above.
JSONparse(text) ==
  IF text = GoodJson THEN [thrown |-> FALSE, value |-> FullAnalysis]
  ELSE [thrown |-> TRUE]

\* The meetings a list can show: analysis is an object, a string or missing.
Meetings ==
  [ title     : {PhDistrict75, PhTownHall},
    cb_number : {NoNumber, 7},
    analysis  : { [type |-> "object", value |-> FullAnalysis],
                  [type |-> "string", text |-> GoodJson],
                  [type |-> "string", text |-> BadJson],
                  [type |-> "undefined"] } ]

\* The results of a processing request.
Results ==
  { [title |-> PhCB7, analysis |-> FullAnalysis, processingTime |-> <<"3", "6", " ", "s">>,
      summary_markdown |-> EmptyString] }

\* Which of the three returns of the component renders (lines 312, 408,
\* 418).
ViewOf(a, view, board) ==
  IF a # NULL /\ view = "analyzer" THEN "results"
  ELSE IF view = "meetings" /\ board # NoNumber THEN "list"
  ELSE "analyzer"

View == ViewOf(analysis, currentView, selectedCB)

\* disabled={(!file && !youtubeUrl) || isProcessing || backendStatus !== 'online'}
StartDisabled ==
  (file = NoFile /\ youtubeUrl = "") \/ isProcessing \/ backendStatus # "online"

\* checkBackend: the response to the health request of the mount effect.
checkBackend ==
  /\ backendStatus = "checking"
  /\ \E ok \in BOOLEAN : backendStatus' = IF ok THEN "online" ELSE "offline"
  /\ UNCHANGED <<file, youtubeUrl, isProcessing, processingMode, currentView,
                 dragActive, selectedCB, manualCB, steps, requests,
                 analysis>>
  /\ alertMessage' = ""
  /\ UNCHANGED <<parserVars, extractorVars, listVars>>

\* The boards of the Navbar menu that the user picks here.
PickedBoards == {3}

\* handleBoardSelect, from the Navbar of any view.
handleBoardSelect(boardNumber) ==
  /\ IF boardNumber = NoNumber
     THEN /\ currentView' = "analyzer"
          /\ selectedCB' = NoNumber
          /\ analysis' = NULL
     ELSE /\ currentView' = "meetings"
          /\ selectedCB' = boardNumber
          /\ analysis' = NULL
  /\ UNCHANGED <<file, youtubeUrl, isProcessing, processingMode, backendStatus,
                 dragActive, manualCB, steps, requests>>
  /\ alertMessage' = ""
  /\ UNCHANGED <<parserVars, extractorVars, listVars>>

BoardSelect == \E b \in PickedBoards \cup {NoNumber} : handleBoardSelect(b)

\* The two mode buttons of the analyzer view.
setProcessingMode ==
  /\ View = "analyzer"
  /\ \E mode \in {"youtube", "file"} : processingMode' = mode
  /\ UNCHANGED <<file, youtubeUrl, isProcessing, backendStatus, currentView,
                 dragActive, selectedCB, manualCB, steps, requests,
                 analysis>>
  /\ alertMessage' = ""
  /\ UNCHANGED <<parserVars, extractorVars, listVars>>

\* The URL input, shown in youtube mode.
setYoutubeUrl ==
  /\ View = "analyzer"
  /\ processingMode = "youtube"
  /\ \E url \in {"", "https://youtu.be/a"} : youtubeUrl' = url
  /\ UNCHANGED <<file, isProcessing, processingMode, backendStatus, currentView,
                 dragActive, selectedCB, manualCB, steps, requests,
                 analysis>>
  /\ alertMessage' = ""
  /\ UNCHANGED <<parserVars, extractorVars, listVars>>

\* handleDrag on the upload area, shown in file mode.
handleDrag ==
  /\ View = "analyzer"
  /\ processingMode = "file"
  /\ \E type \in {"dragenter", "dragover", "dragleave"} :
       dragActive' = (type # "dragleave")
  /\ UNCHANGED <<file, youtubeUrl, isProcessing, processingMode, backendStatus,
                 currentView, selectedCB, manualCB, steps, requests,
                 analysis>>
  /\ alertMessage' = ""
  /\ UNCHANGED <<parserVars, extractorVars, listVars>>

\* handleDrop: of no file (dragged text), of a file of a video or audio
\* type, or of a file of another type.
handleDrop ==
  /\ View = "analyzer"
  /\ processingMode = "file"
  /\ dragActive' = FALSE
  /\ \E dropped \in {"nothing", "video/mp4", "text/plain"} :
       IF dropped = "nothing"
       THEN alertMessage' = "" /\ UNCHANGED <<file, processingMode>>
       ELSE IF dropped = "video/mp4"
       THEN file' = "meeting.mp4" /\ processingMode' = "file" /\ alertMessage' = ""
       ELSE /\ alertMessage' = "Please upload a video or audio file."
            /\ UNCHANGED <<file, processingMode>>
  /\ UNCHANGED <<youtubeUrl, isProcessing, backendStatus, currentView, selectedCB,
                 manualCB, steps, requests, analysis>>
  /\ UNCHANGED <<parserVars, extractorVars, listVars>>

\* handleFileSelect of the file input.
handleFileSelect ==
  /\ View = "analyzer"
  /\ processingMode = "file"
  /\ file' = "meeting.mp4"
  /\ UNCHANGED <<youtubeUrl, isProcessing, processingMode, backendStatus,
                 currentView, dragActive, selectedCB, manualCB, steps, requests, analysis>>
  /\ alertMessage' = ""
  /\ UNCHANGED <<parserVars, extractorVars, listVars>>

\* processVideo up to its first await: a click on the enabled start button.
\* The request is sent, or the error is thrown, caught and alerted.
processVideo ==
  /\ View = "analyzer"
  /\ ~StartDisabled
  /\ Len(requests) < MaxRequests
  /\ IF backendStatus # "online"
     THEN /\ alertMessage' = "Server is not active"
          /\ UNCHANGED <<isProcessing, analysis, requests>>
     ELSE /\ analysis' = NULL
          /\ IF processingMode = "youtube" /\ youtubeUrl # ""
             THEN /\ requests' = Append(requests, "process-youtube")
                  /\ isProcessing' = TRUE
                  /\ alertMessage' = ""
             ELSE IF processingMode = "file" /\ file # NoFile
             THEN /\ requests' = Append(requests, "process-file")
                  /\ isProcessing' = TRUE
                  /\ alertMessage' = ""
             ELSE /\ alertMessage' = "Processing failed: No file or URL provided"
                  /\ isProcessing' = FALSE
                  /\ UNCHANGED requests
  /\ UNCHANGED <<file, youtubeUrl, processingMode, backendStatus, currentView,
                 dragActive, selectedCB, manualCB, steps>>
  /\ UNCHANGED <<parserVars, extractorVars, listVars>>

\* requests without its k-th element.
Without(rs, k) == SubSeq(rs, 1, k - 1) \o SubSeq(rs, k + 1, Len(rs))

\* processVideo after its awaits, for a response that is ok: setAnalysis
\* with the result, then finally.
ProcessingSucceeded(k, result) ==
  /\ k \in DOMAIN requests
  /\ requests' = Without(requests, k)
  /\ analysis' =
       [title            |-> result.title,
        summary          |-> OrElse(result.analysis.summary,
                                    <<"M", "e", "e", "t", "i", "n", "g", " ", "a", "n", "a", "l", "y", "s", "i", "s", " ", "c", "o", "m", "p", "l", "e", "t", "e", "d", " ", "s", "u", "c", "c", "e", "s", "s", "f", "u", "l", "l", "y", ".">>),
        keyDecisions     |-> result.analysis.keyDecisions,
        publicConcerns   |-> result.analysis.publicConcerns,
        nextSteps        |-> result.analysis.nextSteps,
        sentiment        |-> OrElse(result.analysis.sentiment, StrMixed),
        attendance       |-> OrElse(result.analysis.attendance, NotSpecified),
        mainTopics       |-> result.analysis.mainTopics,
        processingTime   |-> OrElse(result.processingTime, <<"U", "n", "k", "n", "o", "w", "n">>),
        summary_markdown |-> result.summary_markdown,
        cb_number        |-> NoNumber]
  /\ isProcessing' = FALSE
  /\ UNCHANGED <<file, youtubeUrl, processingMode, backendStatus, currentView,
                 dragActive, selectedCB, manualCB, steps>>
  /\ alertMessage' = ""
  /\ UNCHANGED <<parserVars, extractorVars, listVars>>

\* processVideo after its awaits, for a response that is not ok or a
\* request that failed: catch, then finally.
ProcessingFailed(k) ==
  /\ k \in DOMAIN requests
  /\ requests' = Without(requests, k)
  /\ alertMessage' = "Processing failed: Processing failed"
  /\ isProcessing' = FALSE
  /\ UNCHANGED <<file, youtubeUrl, processingMode, backendStatus, currentView,
                 dragActive, selectedCB, manualCB, steps, analysis>>
  /\ UNCHANGED <<parserVars, extractorVars, listVars>>

ProcessingResponse ==
  \E k \in DOMAIN requests :
    \/ \E result \in Results : ProcessingSucceeded(k, result)
    \/ ProcessingFailed(k)

\* resetProcessor: 'Process Another Meeting' of the results view.
resetProcessor ==
  /\ View = "results"
  /\ file' = NoFile
  /\ youtubeUrl' = ""
  /\ analysis' = NULL
  /\ isProcessing' = FALSE
  /\ UNCHANGED <<processingMode, backendStatus, currentView, dragActive, selectedCB,
                 manualCB, steps, requests>>
  /\ alertMessage' = ""
  /\ UNCHANGED <<parserVars, extractorVars, listVars>>

\* 'Back to CB{n} Meetings' of the results view, rendered when
\* analysis.cb_number is truthy.
BackToMeetings ==
  /\ View = "results"
  /\ analysis.cb_number # NoNumber
  /\ selectedCB' = analysis.cb_number
  /\ currentView' = "meetings"
  /\ analysis' = NULL
  /\ UNCHANGED <<file, youtubeUrl, isProcessing, processingMode, backendStatus,
                 dragActive, manualCB, steps, requests>>
  /\ alertMessage' = ""
  /\ UNCHANGED <<parserVars, extractorVars, listVars>>

\* The value of 'analysis' of handleSelectMeeting after the typeof test and
\* JSON.parse: the object, or the string itself when parsing threw.
ParsedAnalysis(meeting) ==
  IF meeting.analysis.type = "string"
  THEN LET parsed == JSONparse(meeting.analysis.text)
       IN  IF parsed.thrown
           THEN [truthy |-> meeting.analysis.text # "", value |-> NoProperties]
           ELSE [truthy |-> TRUE, value |-> parsed.value]
  ELSE IF meeting.analysis.type = "object"
  THEN [truthy |-> TRUE, value |-> meeting.analysis.value]
  ELSE [truthy |-> FALSE, value |-> NoProperties]

\* analysisData of handleSelectMeeting before the Markdown is generated.
analysisData(meeting, a) ==
  [title            |-> meeting.title,
   summary          |-> a.summary,
   keyDecisions     |-> a.keyDecisions,
   publicConcerns   |-> a.publicConcerns,
   nextSteps        |-> a.nextSteps,
   sentiment        |-> OrElse(a.sentiment, StrMixed),
   attendance       |-> OrElse(a.attendance, NotSpecified),
   mainTopics       |-> a.mainTopics,
   processingTime   |-> <<"P", "r", "e", "v", "i", "o", "u", "s", "l", "y", " ", "p", "r", "o", "c", "e", "s", "s", "e", "d">>,
   summary_markdown |-> a.summary_markdown,
   cb_number        |-> IF meeting.cb_number # NoNumber THEN meeting.cb_number
                        ELSE IF extractCBNumber(meeting.title) = EmptyString
                        THEN NoNumber
                        ELSE parseInt(extractCBNumber(meeting.title))]

\* handleSelectMeeting, from a row of the meeting list.
handleSelectMeeting(meeting) ==
  /\ View = "list"
  /\ LET parsed == ParsedAnalysis(meeting)
         data   == analysisData(meeting, parsed.value)
     IN  IF parsed.truthy
         THEN /\ \E today \in Dates :
                   analysis' =
                     IF data.summary_markdown # EmptyString THEN data
                     ELSE [data EXCEPT !.summary_markdown =
                             generateMarkdownFromAnalysis(data, today)]
              /\ currentView' = "analyzer"
         ELSE UNCHANGED <<analysis, currentView>>
  /\ UNCHANGED <<file, youtubeUrl, isProcessing, processingMode, backendStatus,
                 dragActive, selectedCB, manualCB, steps, requests>>
  /\ alertMessage' = ""
  /\ UNCHANGED <<parserVars, extractorVars, listVars>>

SelectMeeting == \E meeting \in Meetings : handleSelectMeeting(meeting)

NextApp ==
  \/ checkBackend
  \/ BoardSelect
  \/ setProcessingMode
  \/ setYoutubeUrl
  \/ handleDrag
  \/ handleDrop
  \/ handleFileSelect
  \/ processVideo
  \/ ProcessingResponse
  \/ resetProcessor
  \/ BackToMeetings
  \/ SelectMeeting

\* App mounted; no parser or extractor call is followed.
InitApp ==
  /\ AppStart
  /\ processingMode = "youtube"
  /\ analysis = NULL
  /\ ListStart
  /\ ExtractorIdle
  /\ ParserStart
  /\ lines = <<EmptyString>>
  /\ pc = "idle"

SpecApp == InitApp /\ [][NextApp]_vars

(* ---------------------------------------------------------------------- *)
(* MeetingList (src/unnamed/part_004, lines 39-174)                       *)
(* ---------------------------------------------------------------------- *)

\* Most calls of fetchMeetings awaiting their response at a time.
MaxFetches == 2

\* Most calls of refreshVideos awaiting the response of their POST at a
\* time.
MaxPosts == 1

\* The boards whose lists are opened here.
ListBoards == {3, 7}

\* data.meetings of a response for a board.
MeetingsData(cb) ==
  { <<>>, <<[video_id |-> "v1", cb_number |-> cb]>> }

\* The closure of the auto-refresh interval is renewed by the effect of
\* lines 69-78 when cbNumber or loading changes, and then sees the
\* meetings of that render.  A closure reads only meetings.length of its
\* 'meetings' (lines 119, 137, 144): whether it is non-empty is kept.
IntervalRenewed ==
  intervalSees' =
    IF loading' # loading \/ selectedCB' # selectedCB THEN meetings' # <<>> ELSE intervalSees

\* fetchMeetings up to its await, called from a closure whose 'cbNumber'
\* is cb and whose 'meetings' is non-empty when seen is true; awaited is
\* whether the call is the one refreshVideos awaits (line 166).
fetchMeetings(isAutoRefresh, seen, cb, awaited) ==
  /\ Len(fetches) < MaxFetches
  /\ loading' = IF isAutoRefresh THEN loading ELSE TRUE
  /\ error' = NoError
  /\ fetches' = Append(fetches, [cb |-> cb, auto |-> isAutoRefresh, seen |-> seen,
                                 awaited |-> awaited])
  /\ UNCHANGED <<meetings, lastFetch>>
  /\ IntervalRenewed

\* The cbNumber prop changes (another board is picked in the Navbar): the
\* effect of lines 64-67 fetches for the new board.
BoardChanged ==
  /\ \E b \in ListBoards \ {selectedCB} : selectedCB' = b
  /\ fetchMeetings(FALSE, meetings # <<>>, selectedCB', FALSE)
  /\ UNCHANGED <<refreshing, posts>>
  /\ UNCHANGED <<appVarsButBoard, analysis>>
  /\ alertMessage' = ""
  /\ UNCHANGED <<parserVars, extractorVars>>

\* 'Try Again' of the error view.
TryAgain ==
  /\ ~loading
  /\ error # NoError
  /\ UNCHANGED selectedCB
  /\ fetchMeetings(FALSE, meetings # <<>>, selectedCB, FALSE)
  /\ UNCHANGED <<refreshing, posts>>
  /\ UNCHANGED <<appVarsButBoard, analysis>>
  /\ alertMessage' = ""
  /\ UNCHANGED <<parserVars, extractorVars>>

\* A tick of the auto-refresh interval.
AutoRefresh ==
  /\ ~loading
  /\ UNCHANGED selectedCB
  /\ fetchMeetings(TRUE, intervalSees, selectedCB, FALSE)
  /\ UNCHANGED <<refreshing, posts>>
  /\ UNCHANGED <<appVarsButBoard, analysis>>
  /\ alertMessage' = ""
  /\ UNCHANGED <<parserVars, extractorVars>>

\* finally { if (!isAutoRefresh) setLoading(false) }; the call that
\* refreshVideos awaits then lets it reach its own finally
\* { setRefreshing(false) }.
Finally(fetch) ==
  /\ loading' = IF fetch.auto THEN loading ELSE FALSE
  /\ refreshing' = IF fetch.awaited THEN FALSE ELSE refreshing
  /\ UNCHANGED posts

\* fetchMeetings after its awaits: a response without error.
FetchSucceeded(k, data) ==
  /\ k \in DOMAIN fetches
  /\ fetches' = Without(fetches, k)
  /\ meetings' = data
  /\ lastFetch' = "date"
  /\ Finally(fetches[k])
  /\ UNCHANGED <<error, appVars, analysis>>
  /\ alertMessage' = ""
  /\ UNCHANGED <<parserVars, extractorVars>>
  /\ IntervalRenewed

\* fetchMeetings after its awaits: a response whose data.error includes
\* 'temporarily unavailable' (and has no meetings).
FetchUnavailable(k) ==
  /\ k \in DOMAIN fetches
  /\ fetches' = Without(fetches, k)
  /\ IF fetches[k].seen /\ fetches[k].auto
     THEN UNCHANGED <<meetings, lastFetch>>
     ELSE meetings' = <<>> /\ lastFetch' = "date"
  /\ Finally(fetches[k])
  /\ UNCHANGED <<error, appVars, analysis>>
  /\ alertMessage' = ""
  /\ UNCHANGED <<parserVars, extractorVars>>
  /\ IntervalRenewed

\* fetchMeetings after its awaits: the request failed or the response is
\* not ok (catch).
FetchFailed(k) ==
  /\ k \in DOMAIN fetches
  /\ fetches' = Without(fetches, k)
  /\ IF fetches[k].auto /\ fetches[k].seen
     THEN UNCHANGED <<error, meetings>>
     ELSE /\ error' = "Failed to fetch meetings: 500"
          /\ meetings' = IF ~fetches[k].seen THEN <<>> ELSE meetings
  /\ Finally(fetches[k])
  /\ UNCHANGED <<lastFetch, appVars, analysis>>
  /\ alertMessage' = ""
  /\ UNCHANGED <<parserVars, extractorVars>>
  /\ IntervalRenewed

FetchResponse ==
  \E k \in DOMAIN fetches :
    \/ \E data \in MeetingsData(fetches[k].cb) : FetchSucceeded(k, data)
    \/ FetchUnavailable(k)
    \/ FetchFailed(k)

\* refreshVideos up to its await (lines 154-158): a click on the button of
\* the header, disabled while refreshing, or on 'Fetch Videos from
\* YouTube' of the empty list, which is never disabled.  The call keeps
\* the 'cbNumber' and the 'meetings' of the render of the click.
refreshVideos ==
  /\ ~loading
  /\ error = NoError
  /\ ~refreshing \/ meetings = <<>>
  /\ Len(posts) < MaxPosts
  /\ refreshing' = TRUE
  /\ posts' = Append(posts, [cb |-> selectedCB, seen |-> meetings # <<>>])
  /\ UNCHANGED <<meetings, loading, error, lastFetch, fetches, intervalSees>>
  /\ UNCHANGED <<appVars, analysis>>
  /\ alertMessage' = ""
  /\ UNCHANGED <<parserVars, extractorVars>>

\* refreshVideos after the await of its POST (lines 160-173): the response
\* is ok and tells of new videos, and fetchMeetings() is called and
\* awaited; or it tells of none, is not ok or the request failed, and
\* finally { setRefreshing(false) }.
VideosResponse(k) ==
  /\ k \in DOMAIN posts
  /\ posts' = Without(posts, k)
  /\ UNCHANGED selectedCB
  /\ \E outcome \in {"new videos", "no new videos", "failed"} :
       IF outcome = "new videos"
       THEN /\ fetchMeetings(FALSE, posts[k].seen, posts[k].cb, TRUE)
            /\ UNCHANGED refreshing
       ELSE /\ refreshing' = FALSE
            /\ UNCHANGED <<meetings, loading, error, lastFetch, fetches, intervalSees>>
  /\ UNCHANGED <<appVarsButBoard, analysis>>
  /\ alertMessage' = ""
  /\ UNCHANGED <<parserVars, extractorVars>>

NextList ==
  \/ BoardChanged
  \/ TryAgain
  \/ AutoRefresh
  \/ FetchResponse
  \/ refreshVideos
  \/ \E k \in DOMAIN posts : VideosResponse(k)

\* MeetingList mounted for a board: the effect of lines 64-67 has called
\* fetchMeetings.
InitList ==
  /\ selectedCB \in ListBoards
  /\ currentView = "meetings"
  /\ meetings = <<>>
  /\ loading = TRUE
  /\ error = NoError
  /\ lastFetch = NoDate
  /\ fetches = <<[cb |-> selectedCB, auto |-> FALSE, seen |-> FALSE, awaited |-> FALSE]>>
  /\ intervalSees = FALSE
  /\ refreshing = FALSE
  /\ posts = <<>>
  /\ file = NoFile
  /\ youtubeUrl = ""
  /\ isProcessing = FALSE
  /\ processingMode = "youtube"
  /\ backendStatus = "online"
  /\ dragActive = FALSE
  /\ manualCB = NoNumber
  /\ steps = <<>>
  /\ requests = <<>>
  /\ alertMessage = ""
  /\ analysis = NULL
  /\ ExtractorIdle
  /\ ParserStart
  /\ lines = <<EmptyString>>
  /\ pc = "idle"

SpecList == InitList /\ [][NextList]_vars
(* ---------------------------------------------------------------------- *)
(* App with the board selector (src/unnamed/part_003, lines 29-280),      *)
(* around the MeetingList above.                                          *)
(* ---------------------------------------------------------------------- *)

\* Which of the three returns of the component renders (lines 173, 217,
\* 228).
ViewOf003(a, view, board) ==
  IF a # NULL THEN "results"
  ELSE IF view = "meetings" /\ board # NoNumber THEN "list"
  ELSE "analyzer"

View003 == ViewOf003(analysis, currentView, selectedCB)

\* disabled={(!file && (!youtubeUrl || !manualCB)) || isProcessing}
StartDisabled003 ==
  (file = NoFile /\ (youtubeUrl = "" \/ manualCB = NoNumber)) \/ isProcessing

\* What a step of App does to the MeetingList it renders: mounted when the
\* list view appears, its effect (lines 64-67 of part_004) fetching for
\* the board; gone with the list view; fetching again when cbNumber
\* changes.
ListFollows ==
  LET before == View003 = "list"
      after  == ViewOf003(analysis', currentView', selectedCB') = "list"
  IN  IF after /\ ~before
      THEN /\ meetings' = <<>>
           /\ loading' = TRUE
           /\ error' = NoError
           /\ lastFetch' = NoDate
           /\ fetches' = <<[cb |-> selectedCB', auto |-> FALSE, seen |-> FALSE,
                             awaited |-> FALSE]>>
           /\ intervalSees' = FALSE
           /\ refreshing' = FALSE
           /\ posts' = <<>>
      ELSE IF ~after
      THEN /\ meetings' = <<>>
           /\ loading' = TRUE
           /\ error' = NoError
           /\ lastFetch' = NoDate
           /\ fetches' = <<>>
           /\ intervalSees' = FALSE
           /\ refreshing' = FALSE
           /\ posts' = <<>>
      ELSE IF selectedCB' # selectedCB
      THEN fetchMeetings(FALSE, meetings # <<>>, selectedCB', FALSE) /\ UNCHANGED <<refreshing, posts>>
      ELSE UNCHANGED listVars

\* handleBoardSelect (lines 56-66), from the Navbar of any view.
handleBoardSelect003(boardNumber) ==
  /\ IF boardNumber = NoNumber
     THEN /\ currentView' = "analyzer"
          /\ selectedCB' = NoNumber
          /\ analysis' = NULL
     ELSE /\ currentView' = "meetings"
          /\ selectedCB' = boardNumber
          /\ analysis' = NULL
  /\ UNCHANGED <<file, youtubeUrl, isProcessing, processingMode, backendStatus,
                 dragActive, manualCB, steps, requests>>
  /\ alertMessage' = ""
  /\ UNCHANGED <<parserVars, extractorVars>>
  /\ ListFollows

\* The board select of the analyzer view, shown in youtube mode.
setManualCB ==
  /\ View003 = "analyzer"
  /\ processingMode = "youtube"
  /\ \E cbNum \in {7} : manualCB' = cbNum
  /\ UNCHANGED <<file, youtubeUrl, isProcessing, processingMode, backendStatus,
                 currentView, dragActive, selectedCB, steps, requests,
                 analysis>>
  /\ alertMessage' = ""
  /\ UNCHANGED <<parserVars, extractorVars, listVars>>

\* processVideo up to its first await: a click on the enabled start button.
processVideo003 ==
  /\ View003 = "analyzer"
  /\ ~StartDisabled003
  /\ IF backendStatus # "online"
     THEN /\ alertMessage' = "Server is not active"
          /\ UNCHANGED <<isProcessing, analysis, requests>>
     ELSE /\ analysis' = NULL
          /\ IF processingMode = "youtube" /\ youtubeUrl # ""
             THEN /\ requests' = Append(requests, "process-youtube-async")
                  /\ isProcessing' = TRUE
                  /\ alertMessage' = ""
             ELSE IF processingMode = "file" /\ file # NoFile
             THEN /\ requests' = Append(requests, "process-file")
                  /\ isProcessing' = TRUE
                  /\ alertMessage' = ""
             ELSE /\ alertMessage' = "Processing failed: No file or URL provided"
                  /\ isProcessing' = FALSE
                  /\ UNCHANGED requests
  /\ UNCHANGED <<file, youtubeUrl, processingMode, backendStatus, currentView,
                 dragActive, selectedCB, manualCB, steps>>
  /\ UNCHANGED <<parserVars, extractorVars>>
  /\ ListFollows

\* processVideo after its awaits: a result with an analysis, a result with
\* success and a message (alert, then resetProcessor of lines 128-134), a
\* result with neither (the error of line 117, thrown and caught), or a
\* response that is not ok; then finally.
ProcessingResponse003 ==
  /\ requests # <<>>
  /\ requests' = Tail(requests)
  /\ isProcessing' = FALSE
  /\ \E outcome \in {"analysis", "message", "unexpected", "failure"} :
       IF outcome = "analysis"
       THEN /\ analysis' =
                 [title            |-> PhCB7,
                  summary          |-> FullAnalysis.summary,
                  keyDecisions     |-> FullAnalysis.keyDecisions,
                  publicConcerns   |-> FullAnalysis.publicConcerns,
                  nextSteps        |-> FullAnalysis.nextSteps,
                  sentiment        |-> FullAnalysis.sentiment,
                  attendance       |-> FullAnalysis.attendance,
                  mainTopics       |-> FullAnalysis.mainTopics,
                  processingTime   |-> <<"U", "n", "k", "n", "o", "w", "n">>,
                  summary_markdown |-> FullAnalysis.summary_markdown,
                  cb_number        |-> NoNumber,
                  url              |-> "https://youtu.be/a"]
            /\ UNCHANGED <<file, youtubeUrl, manualCB>>
            /\ alertMessage' = ""
       ELSE IF outcome = "message"
       THEN /\ alertMessage' = "Video queued for processing"
            /\ file' = NoFile
            /\ youtubeUrl' = ""
            /\ analysis' = NULL
            /\ manualCB' = NoNumber
       ELSE IF outcome = "unexpected"
       THEN /\ alertMessage' =
                 "Processing failed: Received an unexpected response from the server."
            /\ UNCHANGED <<file, youtubeUrl, manualCB, analysis>>
       ELSE /\ alertMessage' = "Processing failed: Processing failed"
            /\ UNCHANGED <<file, youtubeUrl, manualCB, analysis>>
  /\ UNCHANGED <<processingMode, backendStatus, currentView, dragActive, selectedCB,
                 steps>>
  /\ UNCHANGED <<parserVars, extractorVars>>
  /\ ListFollows

\* handleSelectMeeting (lines 136-167) for the k-th row of the list, whose
\* analysis is one of those of Meetings.
handleSelectMeeting003(k, meetingAnalysis) ==
  /\ View003 = "list"
  /\ ~loading
  /\ error = NoError
  /\ k \in DOMAIN meetings
  /\ LET meeting == [title |-> PhTownHall, cb_number |-> meetings[k].cb_number,
                     url |-> "https://youtu.be/a", analysis |-> meetingAnalysis]
         parsed  == ParsedAnalysis(meeting)
     IN  IF parsed.truthy /\ ~(meetingAnalysis.type = "string"
                                /\ JSONparse(meetingAnalysis.text).thrown)
         THEN /\ analysis' =
                   [title            |-> meeting.title,
                    summary          |-> parsed.value.summary,
                    keyDecisions     |-> parsed.value.keyDecisions,
                    publicConcerns   |-> parsed.value.publicConcerns,
                    nextSteps        |-> parsed.value.nextSteps,
                    sentiment        |-> OrElse(parsed.value.sentiment, StrMixed),
                    attendance       |-> OrElse(parsed.value.attendance, NotSpecified),
                    mainTopics       |-> parsed.value.mainTopics,
                    processingTime   |-> <<"P", "r", "e", "v", "i", "o", "u", "s", "l", "y", " ", "p", "r", "o", "c", "e", "s", "s", "e", "d">>,
                    summary_markdown |-> parsed.value.summary_markdown,
                    cb_number        |-> meeting.cb_number,
                    url              |-> meeting.url]
              /\ currentView' = "analyzer"
              /\ alertMessage' = ""
         ELSE /\ alertMessage' = "No analysis data found for this meeting."
              /\ UNCHANGED <<analysis, currentView>>
  /\ UNCHANGED <<file, youtubeUrl, isProcessing, processingMode, backendStatus,
                 dragActive, selectedCB, manualCB, steps, requests>>
  /\ UNCHANGED <<parserVars, extractorVars>>
  /\ ListFollows

\* 'Process Another Meeting' of the results view (lines 193-199).
ProcessAnother003 ==
  /\ View003 = "results"
  /\ analysis' = NULL
  /\ currentView' = "analyzer"
  /\ selectedCB' = NoNumber
  /\ UNCHANGED <<file, youtubeUrl, isProcessing, processingMode, backendStatus,
                 dragActive, manualCB, steps, requests>>
  /\ alertMessage' = ""
  /\ UNCHANGED <<parserVars, extractorVars>>
  /\ ListFollows

\* 'Back to CB{n} Meetings' of the results view (lines 201-209), rendered
\* when analysis.cb_number is truthy.
BackToMeetings003 ==
  /\ View003 = "results"
  /\ analysis.cb_number # NoNumber
  /\ analysis' = NULL
  /\ currentView' = "meetings"
  /\ UNCHANGED <<file, youtubeUrl, isProcessing, processingMode, backendStatus,
                 dragActive, selectedCB, manualCB, steps, requests>>
  /\ alertMessage' = ""
  /\ UNCHANGED <<parserVars, extractorVars>>
  /\ ListFollows

\* handleDrop (line 170) on the upload area, shown in file mode: of no
\* file (dragged text) or of a file, whatever its type.
handleDrop003 ==
  /\ View003 = "analyzer"
  /\ processingMode = "file"
  /\ dragActive' = FALSE
  /\ \E dropped \in {"nothing", "meeting.mp4"} :
       file' = IF dropped = "nothing" THEN file ELSE dropped
  /\ UNCHANGED <<youtubeUrl, isProcessing, processingMode, backendStatus, currentView,
                 selectedCB, manualCB, steps, requests, analysis>>
  /\ alertMessage' = ""
  /\ UNCHANGED <<parserVars, extractorVars, listVars>>

\* The rest of the form of the analyzer view (lines 246-271) is that of
\* App.tsx: the mode buttons, the URL input, handleDrag (line 169) and
\* handleFileSelect (line 171).
AnalyzerForm003 ==
  /\ View003 = "analyzer"
  /\ (setProcessingMode \/ setYoutubeUrl \/ handleDrag \/ handleFileSelect)

\* The mounted MeetingList, on its own.
ListStep003 ==
  /\ View003 = "list"
  /\ \/ TryAgain
     \/ AutoRefresh
     \/ FetchResponse
     \/ refreshVideos
     \/ \E k \in DOMAIN posts : VideosResponse(k)

Next003 ==
  \/ checkBackend
  \/ \E b \in ListBoards \cup {NoNumber} : handleBoardSelect003(b)
  \/ AnalyzerForm003
  \/ handleDrop003
  \/ setManualCB
  \/ processVideo003
  \/ ProcessingResponse003
  \/ \E k \in DOMAIN meetings : \E meetingAnalysis \in {m.analysis : m \in Meetings} :
       handleSelectMeeting003(k, meetingAnalysis)
  \/ ProcessAnother003
  \/ BackToMeetings003
  \/ ListStep003

Spec003 == InitApp /\ [][Next003]_vars
(* ---------------------------------------------------------------------- *)
(* App with the local pipeline (src/unnamed/part_000, lines 30-165).      *)
(* 'requests' holds, for each running call of simulateLocalProcessing,    *)
(* the step whose timer it awaits.  A step is its id and status; its      *)
(* name, message and duration are display texts.                          *)
(* ---------------------------------------------------------------------- *)

initialSteps ==
  << [id |-> "extract",    status |-> "pending"],
     [id |-> "transcribe", status |-> "pending"],
     [id |-> "analyze",    status |-> "pending"],
     [id |-> "complete",   status |-> "pending"] >>

\* A pipeline that marks every step, whatever the id.
updateStepEvery(prev, stepId, status) ==
  [j \in DOMAIN prev |-> [prev[j] EXCEPT !.status = status]]

\* updateStep, as the function of prev it passes to setSteps.
updateStep(prev, stepId, status) ==
  [j \in DOMAIN prev |->
     IF prev[j].id = stepId THEN [prev[j] EXCEPT !.status = status] ELSE prev[j]]

\* simulateLocalProcessing up to its first await: a click on the start
\* button of the main view, enabled unless
\* (!file && !youtubeUrl) || isProcessing.
simulateLocalProcessing ==
  /\ analysis = NULL
  /\ ~((file = NoFile /\ youtubeUrl = "") \/ isProcessing)
  /\ isProcessing' = TRUE
  /\ steps' = updateStep(initialSteps, "extract", "processing")
  /\ analysis' = NULL
  /\ requests' = Append(requests, "extract")
  /\ UNCHANGED <<file, youtubeUrl, processingMode, backendStatus, currentView,
                 dragActive, selectedCB, manualCB>>
  /\ alertMessage' = ""
  /\ UNCHANGED <<parserVars, extractorVars, listVars>>

\* simulateLocalProcessing from the end of one await to the next, or to
\* its end: the awaited step is completed, and the next one is started or
\* the analysis is set (then finally).  The timers never reject, so the
\* catch is never entered.
TimerFired(k) ==
  /\ k \in DOMAIN requests
  /\ LET stepId    == requests[k]
         completed == updateStep(steps, stepId, "completed")
         j         == CHOOSE h \in DOMAIN initialSteps : initialSteps[h].id = stepId
     IN  IF j < Len(initialSteps)
         THEN /\ steps' = updateStep(completed, initialSteps[j + 1].id, "processing")
              /\ requests' = [requests EXCEPT ![k] = initialSteps[j + 1].id]
              /\ UNCHANGED <<analysis, isProcessing>>
         ELSE /\ steps' = completed
              /\ requests' = Without(requests, k)
              /\ analysis' =
                   [title          |-> <<"C", "B", "7", " ", "F", "u", "l", "l", " ", "B", "o", "a", "r", "d", " ", "M", "e", "e", "t", "i", "n", "g", " ", "-", " ", "O", "c", "t", "o", "b", "e", "r", " ", "2", "0", "2", "4">>,
                    sentiment      |-> <<"C", "a", "u", "t", "i", "o", "u", "s", "l", "y", " ", "O", "p", "t", "i", "m", "i", "s", "t", "i", "c">>,
                    processingTime |-> <<"3", "6", ".", "1", " ", "s", "e", "c", "o", "n", "d", "s">>]
              /\ isProcessing' = FALSE
  /\ UNCHANGED <<file, youtubeUrl, processingMode, backendStatus, currentView,
                 dragActive, selectedCB, manualCB>>
  /\ alertMessage' = ""
  /\ UNCHANGED <<parserVars, extractorVars, listVars>>

\* resetProcessor: 'Process Another Meeting' of the results view.
resetProcessor000 ==
  /\ analysis # NULL
  /\ file' = NoFile
  /\ youtubeUrl' = ""
  /\ steps' = <<>>
  /\ analysis' = NULL
  /\ isProcessing' = FALSE
  /\ UNCHANGED <<processingMode, backendStatus, currentView, dragActive, selectedCB,
                 manualCB, requests>>
  /\ alertMessage' = ""
  /\ UNCHANGED <<parserVars, extractorVars, listVars>>

\* The URL input of the main view, shown in youtube mode.
setYoutubeUrl000 ==
  /\ analysis = NULL
  /\ processingMode = "youtube"
  /\ \E url \in {"", "https://youtu.be/a", "https://youtu.be/b"} : youtubeUrl' = url
  /\ UNCHANGED <<file, isProcessing, processingMode, backendStatus, currentView,
                 dragActive, selectedCB, manualCB, steps, requests,
                 analysis>>
  /\ alertMessage' = ""
  /\ UNCHANGED <<parserVars, extractorVars, listVars>>

\* handleDrop (lines 140-151) on the upload area of the main view, shown in
\* file mode: of no file (dragged text), of a file of a video or audio
\* type, which becomes the file, or of a file of another type, which is
\* left out without a message.
handleDrop000 ==
  /\ analysis = NULL
  /\ processingMode = "file"
  /\ dragActive' = FALSE
  /\ \E dropped \in {"nothing", "video/mp4", "audio/mpeg", "text/plain"} :
       file' = IF dropped = "video/mp4" THEN "meeting.mp4"
               ELSE IF dropped = "audio/mpeg" THEN "meeting.mp3"
               ELSE file
  /\ UNCHANGED <<youtubeUrl, isProcessing, processingMode, backendStatus, currentView,
                 selectedCB, manualCB, steps, requests, analysis>>
  /\ alertMessage' = ""
  /\ UNCHANGED <<parserVars, extractorVars, listVars>>

\* The mode buttons, handleDrag and the file input of the main view are
\* those of App.tsx.
Next000 ==
  \/ simulateLocalProcessing
  \/ \E k \in DOMAIN requests : TimerFired(k)
  \/ resetProcessor000
  \/ setYoutubeUrl000
  \/ setProcessingMode
  \/ handleDrag
  \/ handleDrop000
  \/ handleFileSelect

\* App mounted, in file mode.
Init000 ==
  /\ AppStart
  /\ processingMode = "file"
  /\ analysis = NULL
  /\ ListStart
  /\ ExtractorIdle
  /\ ParserStart
  /\ lines = <<EmptyString>>
  /\ pc = "idle"

Spec000 == Init000 /\ [][Next000]_vars
(* ---------------------------------------------------------------------- *)
(* Documents whose bullets mention an owner                               *)
(* ---------------------------------------------------------------------- *)

LnOwnerBullet == <<"-", " ", "N", "o", "t", "i", "f", "y", " ", "O", "w", "n", "e", "r", ":", " ", "r", "e", "p", "a", "i", "r", "s">>

VocabBullets == {LnTopic1, LnActionItems, LnBullet, LnOwnerBullet, LnOwner, LnDue}

InitBullets == InitOver(VocabBullets)

SpecBullets == InitBullets /\ [][Next]_vars

(* ---------------------------------------------------------------------- *)
(* Vocabulary of the properties                                           *)
(* ---------------------------------------------------------------------- *)

\* The loop is about to scan lines[i].
Scanning == pc = "scan" /\ i <= Len(lines)

\* The line has the numbered topic header form '## <digits>.'.
IsHeaderLine(l) == TopicHeaderMatch(trim(l)) > 0

\* The title written on a numbered header line of the vocabulary.
TitleOf(l) == IF l = LnTopic1 THEN StrZoning ELSE StrParks

\* A topic as a header leaves it: nothing but its number and title.
EmptyTopic(n, t) ==
  [number |-> n, title |-> t, speakers |-> <<>>, sentiment |-> <<>>,
   summary |-> <<>>, decisions |-> <<>>, actionItems |-> <<>>]

\* Lines that overview-capture mode passes over: empty and bold-prefixed
\* lines, the title line and the overview marker itself.
PassedByOverview(l) ==
  \/ trim(l) = <<>>
  \/ startsWith(trim(l), BoldMark)
  \/ startsWith(trim(l), DateHeader)
  \/ trim(l) = OverviewMarker

\* Line k is the first line after a '## Meeting Overview' marker that
\* overview capture does not pass over.
FirstAfterMarker(doc, k) ==
  /\ ~PassedByOverview(doc[k])
  /\ \E m \in 1..(k - 1) :
       /\ trim(doc[m]) = OverviewMarker
       /\ \A j \in (m + 1)..(k - 1) : PassedByOverview(doc[j])

\* a is a subsequence of b.
RECURSIVE IsSubsequence(_, _)
IsSubsequence(a, b) ==
  IF a = <<>> THEN TRUE
  ELSE IF b = <<>> THEN FALSE
  ELSE IF Head(a) = Head(b) THEN IsSubsequence(Tail(a), Tail(b))
  ELSE IsSubsequence(a, Tail(b))

\* The titles written on the numbered header lines of a document, in order.
HeaderTitles(doc) ==
  LET hs == SelectSeq(doc, IsHeaderLine)
  IN  [k \in 1..Len(hs) |-> TitleOf(hs[k])]

(* ---------------------------------------------------------------------- *)
(* Topics: order, numbering, count                                        *)
(* ---------------------------------------------------------------------- *)

\* C1: when the parse is done, the k-th parsed topic carries number k, and
\* the titles of the parsed topics, in order, are a subsequence of the
\* titles on the document's numbered header lines, in document order.
C1_OrderAndNumbering ==
  pc = "done" =>
    /\ \A k \in 1..Len(sections) : sections[k].number = k
    /\ IsSubsequence([k \in 1..Len(sections) |-> sections[k].title],
                     HeaderTitles(lines))

\* C1 witness: a parse of '## 12. Parks', ..., '## 1. Zoning' that numbered
\* Parks 1 and Zoning 2.
C1_Witness ==
  /\ pc = "done"
  /\ Len(sections) >= 2
  /\ sections[1].title = StrParks /\ sections[1].number = 1
  /\ sections[2].title = StrZoning /\ sections[2].number = 2

\* C2: when the parse is done, there are as many parsed topics as lines of
\* the numbered header form in the document.
C2_TopicPerHeaderLine ==
  pc = "done" =>
    Len(sections) = Cardinality({k \in 1..Len(lines) : IsHeaderLine(lines[k])})

\* C6: when the parse is done, a numbered header line immediately followed
\* by another numbered header line has produced a topic with its title and
\* empty summary, decisions and actionItems, and the topic after it is that
\* of the second header: it has its title and, when its body is
\* '### Decisions', '- Form group', that decision.
C6_EmptyTopicTolerance ==
  pc = "done" =>
    \A k \in 1..(Len(lines) - 1) :
      (IsHeaderLine(lines[k]) /\ IsHeaderLine(lines[k + 1])) =>
        \E t \in 1..(Len(sections) - 1) :
          /\ sections[t].title = TitleOf(lines[k])
          /\ sections[t].summary = <<>>
          /\ sections[t].decisions = <<>>
          /\ sections[t].actionItems = <<>>
          /\ sections[t + 1].title = TitleOf(lines[k + 1])
          /\ (/\ k + 3 <= Len(lines)
              /\ lines[k + 2] = LnDecisions
              /\ lines[k + 3] = LnBullet
              /\ (k + 4 <= Len(lines) => IsHeaderLine(lines[k + 4]))) =>
               sections[t + 1].decisions = <<StrFormGroup>>

\* The number of header lines among the first k lines that open a topic
\* (that are not taken as the overview text).
OpenedUpTo(doc, k) ==
  Cardinality({j \in 1..k : IsHeaderLine(doc[j]) /\ ~FirstAfterMarker(doc, j)})

\* Where the first of two adjacent header lines opens a topic, that topic
\* has nothing but its number and title, and the topic of the second header
\* has its own number and title, and the decision under it when its body is
\* '### Decisions', '- Form group'.
EmptyTopicWhereOpened ==
  pc = "done" =>
    \A k \in 1..(Len(lines) - 1) :
      (/\ IsHeaderLine(lines[k]) /\ IsHeaderLine(lines[k + 1])
       /\ ~FirstAfterMarker(lines, k)) =>
        LET t == OpenedUpTo(lines, k)
        IN  /\ Len(sections) >= t + 1
            /\ sections[t] = EmptyTopic(t, TitleOf(lines[k]))
            /\ sections[t + 1].number = t + 1
            /\ sections[t + 1].title = TitleOf(lines[k + 1])
            /\ (/\ k + 3 <= Len(lines)
                /\ lines[k + 2] = LnDecisions
                /\ lines[k + 3] = LnBullet
                /\ (k + 4 <= Len(lines) => IsHeaderLine(lines[k + 4]))) =>
                 sections[t + 1].decisions = <<StrFormGroup>>

(* ---------------------------------------------------------------------- *)
(* Decisions and action items                                             *)
(* ---------------------------------------------------------------------- *)

\* The topics parsed so far: the saved ones and the open one.
Topics ==
  IF pc = "scan" /\ currentSection # NULL THEN Append(sections, currentSection)
  ELSE sections

\* The decisions, and the action items, of the topics parsed so far.
DecisionsOf == [k \in 1..Len(Topics) |-> Topics[k].decisions]

ActionItemsOf == [k \in 1..Len(Topics) |-> Topics[k].actionItems]

\* The loop is about to scan lines[i] as section content of an open topic.
ScanningContent == Scanning /\ ~inOverview /\ currentSection # NULL

\* The action item of '- Form group'.
FormGroupItem(owner, due) == [task |-> StrFormGroup, owner |-> owner, due |-> due]

\* C3: in action-item mode, scanning the bullet '- Form group' followed by
\* the lines '  Owner: Jane Doe' and '  Due: March 2025' appends exactly
\* one action item (Form group, Jane Doe, March 2025) to the open topic
\* and moves the loop past the Owner and Due lines.
C3_ActionItemAttachment ==
  [][(/\ ScanningContent
      /\ currentSubsection = "actionItems"
      /\ i + 2 <= Len(lines)
      /\ lines[i] = LnBullet /\ lines[i + 1] = LnOwner /\ lines[i + 2] = LnDue) =>
       /\ currentSection'.actionItems =
            Append(currentSection.actionItems, FormGroupItem(StrJaneDoe, StrMarch2025))
       /\ i' = i + 3
       /\ sections' = sections]_vars

\* C3 witness: the parse of a topic whose action items are the one bullet
\* with its Owner and Due lines.
C3_Witness ==
  /\ pc = "done"
  /\ Len(lines) = 5
  /\ lines[3] = LnBullet /\ lines[4] = LnOwner /\ lines[5] = LnDue
  /\ Len(sections) = 1
  /\ sections[1].actionItems = <<FormGroupItem(StrJaneDoe, StrMarch2025)>>

\* C4: scanning a bullet line of an open topic in decisions mode appends
\* it to that topic's decisions and leaves every topic's action items as
\* they were; in action-item mode it appends one action item with that
\* task and leaves every topic's decisions as they were.
C4_SubsectionIsolation ==
  [][(ScanningContent /\ lines[i] = LnBullet) =>
       /\ currentSubsection = "decisions" =>
            /\ ActionItemsOf' = ActionItemsOf
            /\ currentSection'.decisions = Append(currentSection.decisions, StrFormGroup)
       /\ currentSubsection = "actionItems" =>
            /\ DecisionsOf' = DecisionsOf
            /\ Len(currentSection'.actionItems) = Len(currentSection.actionItems) + 1
            /\ currentSection'.actionItems[Len(currentSection'.actionItems)].task
                 = StrFormGroup
            /\ SubSeq(currentSection'.actionItems, 1, Len(currentSection.actionItems))
                 = currentSection.actionItems]_vars

\* C4 witness: one topic with a bullet under '### Decisions' and a bullet
\* under '### Action Items', each in its own list.
C4_Witness ==
  /\ pc = "done"
  /\ Len(lines) = 5
  /\ lines[2] = LnDecisions /\ lines[3] = LnBullet
  /\ lines[4] = LnActionItems /\ lines[5] = LnBullet
  /\ Len(sections) = 1
  /\ sections[1].decisions = <<StrFormGroup>>
  /\ sections[1].actionItems = <<FormGroupItem(<<>>, <<>>)>>

\* C9: scanning an 'Owner:' or 'Due:' line (one the lookahead after an
\* action-item bullet did not consume) leaves the action items of every
\* topic as they were.
C9_StrayOwnerDue ==
  [][(Scanning /\ lines[i] \in {LnOwner, LnDue}) =>
       ActionItemsOf' = ActionItemsOf]_vars

\* C9 witness: an action-item bullet followed by its Due line and then an
\* Owner line; the parsed item has the due date and no owner.
C9_Witness ==
  /\ pc = "done"
  /\ Len(lines) = 5
  /\ lines[2] = LnActionItems /\ lines[3] = LnBullet
  /\ lines[4] = LnDue /\ lines[5] = LnOwner
  /\ Len(sections) = 1
  /\ sections[1].actionItems = <<FormGroupItem(<<>>, StrMarch2025)>>

\* C10: a step of the loop changes the decisions of the open topic only in
\* decisions mode and its action items only in action-item mode; with the
\* cursor at none a bullet or text line changes no topic; a saved topic
\* never changes; and the step that opens a topic sets the cursor to none.
C10_CursorGatesLists ==
  [][Scanning =>
       /\ sections' \in {sections, Append(sections, currentSection)}
       /\ (currentSection # NULL /\ currentSection'.number = currentSection.number) =>
            /\ (currentSection'.decisions # currentSection.decisions
                  => currentSubsection = "decisions")
            /\ (currentSection'.actionItems # currentSection.actionItems
                  => currentSubsection = "actionItems")
       /\ (currentSubsection = "" /\ lines[i] \in {LnBullet, LnOwner, LnDue}) =>
            /\ currentSection' = currentSection
            /\ sections' = sections
       /\ sectionCounter' # sectionCounter =>
            /\ currentSubsection' = ""
            /\ currentSection'.decisions = <<>>
            /\ currentSection'.actionItems = <<>>]_vars

\* C10 witness: a bullet before any subsection marker, a '### Decisions'
\* marker, then a second topic whose first line is a bullet: no topic has
\* a decision.
C10_Witness ==
  /\ pc = "done"
  /\ Len(lines) = 5
  /\ lines[1] = LnTopic1 /\ lines[2] = LnBullet /\ lines[3] = LnDecisions
  /\ lines[4] = LnTopic1 /\ lines[5] = LnBullet
  /\ Len(sections) = 2
  /\ sections[1].decisions = <<>> /\ sections[2].decisions = <<>>

(* ---------------------------------------------------------------------- *)
(* Overview and metadata                                                  *)
(* ---------------------------------------------------------------------- *)

\* Some line of the document starts (once trimmed) with the key.
HasLineWith(doc, key) == \E k \in 1..Len(doc) : startsWith(trim(doc[k]), key)

\* C5: when the line-scanning parse is done, a document with no
\* '**Overall Sentiment:**' line has overallSentiment 'Not specified', also
\* when it has an '**Attendance:** 40' line (attendance is then '40'); and
\* a document with no '**Attendance:**' line has attendance 'Not
\* specified', also when it has an '**Overall Sentiment:** Positive' line
\* (the sentiment is then 'Positive').  The header of the split-based
\* renderer has the same defaults, each whatever the other field is.
C5_FieldDefaults ==
  /\ pc = "done" =>
       /\ ~HasLineWith(lines, OverallSentimentKey) =>
            /\ sentiment = NotSpecified
            /\ HasLineWith(lines, AttendanceKey) => attendance = Str40
       /\ ~HasLineWith(lines, AttendanceKey) =>
            /\ attendance = NotSpecified
            /\ HasLineWith(lines, OverallSentimentKey) => sentiment = StrPositive
  /\ headerInfo # NULL =>
       /\ ~HasLineWith(lines, OverallSentimentKey) =>
            /\ headerInfo.sentiment = NotSpecified
            /\ headerInfo.attendance \in {NotSpecified, Str40}
       /\ ~HasLineWith(lines, AttendanceKey) =>
            /\ headerInfo.attendance = NotSpecified
            /\ headerInfo.sentiment \in {NotSpecified, StrPositive}

\* C5 witness: both renderers have read a document with an attendance
\* line and no overall sentiment line: attendance '40', sentiment 'Not
\* specified' in both.
C5_Witness ==
  /\ pc = "done"
  /\ headerInfo # NULL
  /\ HasLineWith(lines, AttendanceKey)
  /\ ~HasLineWith(lines, OverallSentimentKey)
  /\ attendance = Str40 /\ headerInfo.attendance = Str40
  /\ sentiment = NotSpecified /\ headerInfo.sentiment = NotSpecified

\* Line k is the first non-empty, non-bold line after a '## Meeting
\* Overview' marker (not counting further markers).
FirstPlainAfterMarker(doc, k) ==
  /\ trim(doc[k]) # <<>>
  /\ ~startsWith(trim(doc[k]), BoldMark)
  /\ trim(doc[k]) # OverviewMarker
  /\ \E m \in 1..(k - 1) :
       /\ trim(doc[m]) = OverviewMarker
       /\ \A j \in (m + 1)..(k - 1) :
            \/ trim(doc[j]) = <<>>
            \/ startsWith(trim(doc[j]), BoldMark)
            \/ trim(doc[j]) = OverviewMarker

\* C7 as stated: scanning the first non-empty, non-bold line after a
\* '## Meeting Overview' marker makes that line the overview and leaves
\* overview mode.
C7_FirstPlainLineIsOverview ==
  [][(Scanning /\ FirstPlainAfterMarker(lines, i)) =>
       /\ overviewText' = trim(lines[i])
       /\ inOverview' = FALSE]_vars

\* C7 amended: scanning the first line after a '## Meeting Overview'
\* marker that is non-empty, not bold-prefixed, not a title line (a line
\* starting with '# Community Board Meeting' and an em dash) and not
\* another marker makes that line, and only it, the overview and leaves
\* overview mode; scanning any other line leaves the overview as it was.
C7_OverviewCapture ==
  [][Scanning =>
       /\ FirstAfterMarker(lines, i) =>
            /\ overviewText' = trim(lines[i])
            /\ inOverview' = FALSE
       /\ ~FirstAfterMarker(lines, i) => overviewText' = overviewText]_vars

\* C7 witness: marker, blank line, bold line, 'Budget talk', '## 1. Zoning':
\* the overview is 'Budget talk' and the header after it opened a topic.
C7_Witness ==
  /\ pc = "done"
  /\ Len(lines) = 5
  /\ lines[1] = LnOverview /\ lines[2] = LnBlank /\ lines[3] = LnOverall
  /\ lines[4] = LnText /\ lines[5] = LnTopic1
  /\ overviewText = LnText
  /\ Len(sections) = 1

\* C8: scanning '**Overall Sentiment:** Positive' or '**Attendance:** 40',
\* at any position, sets that document-level field and changes no topic;
\* scanning '**Sentiment:** Mixed' or '**Speakers:** Ann' sets that field
\* of the open topic (nothing without one) and changes neither the overall
\* sentiment, nor the attendance, nor a saved topic.
C8_MetadataScopes ==
  [][Scanning =>
       /\ lines[i] = LnOverall =>
            /\ sentiment' = StrPositive
            /\ UNCHANGED <<attendance, sections, currentSection>>
       /\ lines[i] = LnAttendance =>
            /\ attendance' = Str40
            /\ UNCHANGED <<sentiment, sections, currentSection>>
       /\ lines[i] = LnSentiment =>
            /\ UNCHANGED <<sentiment, attendance, sections>>
            /\ currentSection' =
                 IF currentSection = NULL THEN NULL
                 ELSE [currentSection EXCEPT !.sentiment = StrMixed]
       /\ lines[i] = LnSpeakers =>
            /\ UNCHANGED <<sentiment, attendance, sections>>
            /\ currentSection' =
                 IF currentSection = NULL THEN NULL
                 ELSE [currentSection EXCEPT !.speakers = StrAnn]]_vars

\* C8 witness: inside one topic, a '**Sentiment:**' line, then an
\* '**Overall Sentiment:**' line, then a '**Speakers:**' line; each set its
\* own field.
C8_Witness ==
  /\ pc = "done"
  /\ Len(lines) = 4
  /\ lines[1] = LnTopic1 /\ lines[2] = LnSentiment
  /\ lines[3] = LnOverall /\ lines[4] = LnSpeakers
  /\ sentiment = StrPositive
  /\ Len(sections) = 1
  /\ sections[1].sentiment = StrMixed /\ sections[1].speakers = StrAnn

(* ---------------------------------------------------------------------- *)
(* Topic summaries                                                        *)
(* ---------------------------------------------------------------------- *)

\* The strings of a sequence joined by single spaces.
RECURSIVE JoinSpace(_)
JoinSpace(strs) ==
  IF strs = <<>> THEN <<>>
  ELSE IF Len(strs) = 1 THEN strs[1]
  ELSE strs[1] \o <<" ">> \o JoinSpace(Tail(strs))

\* The text of a plain-text line of the vocabulary, trimmed.
TextOf(l) == IF l = LnText THEN StrBudgetTalk ELSE StrVotePassed

\* A plain-text line: not empty, and neither a header or marker line ('#'),
\* nor a bullet ('- '), nor a bold-prefixed line ('**').
PlainTextLine(l) ==
  /\ trim(l) # <<>>
  /\ ~startsWith(trim(l), <<"#">>)
  /\ ~startsWith(trim(l), <<"-", " ">>)
  /\ ~startsWith(trim(l), BoldMark)

\* Line k opens a topic: a numbered header line that is not taken as the
\* overview text.
OpensTopic(doc, k) == IsHeaderLine(doc[k]) /\ ~FirstAfterMarker(doc, k)

\* The positions of the lines of a document that open a topic, in order.
OpeningPositions(doc) ==
  LET hs == {k \in 1..Len(doc) : OpensTopic(doc, k)}
      RECURSIVE Sorted(_)
      Sorted(S) == IF S = {} THEN <<>> ELSE <<MinOf(S)>> \o Sorted(S \ {MinOf(S)})
  IN  Sorted(hs)

\* The position of the header of the topic that is open when line k is
\* met; 0 before the first topic.
TopicAt(doc, k) ==
  LET hs == {h \in 1..k : OpensTopic(doc, h)}
  IN  IF hs = {} THEN 0 ELSE MaxOf(hs)

\* Line k is a subsection marker that is not taken as the overview text:
\* inside a topic it moves the subsection cursor.
MovesCursor(doc, k) ==
  /\ doc[k] \in {LnSummary, LnDecisions, LnActionItems}
  /\ ~FirstAfterMarker(doc, k)

\* The subsection cursor is in summary mode when line k is met: a topic is
\* open and the last marker between its header and line k is
\* '### Summary'.
InSummaryMode(doc, k) ==
  LET h     == TopicAt(doc, k)
      marks == {m \in (h + 1)..(k - 1) : MovesCursor(doc, m)}
  IN  /\ h > 0
      /\ marks # {}
      /\ doc[MaxOf(marks)] = LnSummary

\* The positions of the plain-text lines met in summary mode under the
\* topic whose header is at position h.
MetInSummaryMode(doc, h) ==
  {k \in (h + 1)..Len(doc) :
     /\ PlainTextLine(doc[k])
     /\ TopicAt(doc, k) = h
     /\ InSummaryMode(doc, k)}

\* The trimmed texts of the lines at the positions of S, in document order.
RECURSIVE TextsAt(_, _)
TextsAt(doc, S) ==
  IF S = {} THEN <<>>
  ELSE <<TextOf(doc[MinOf(S)])>> \o TextsAt(doc, S \ {MinOf(S)})

\* C11 as stated: when the parse is done, the summary of every topic is the
\* plain-text lines met while the cursor of that topic is in summary mode,
\* each trimmed, in document order, joined by single spaces; bullets,
\* subsection markers and '**Speakers:**' lines met in summary mode are not
\* in it.
C11_SummaryJoin ==
  pc = "done" =>
    LET hs == OpeningPositions(lines)
    IN  /\ Len(sections) = Len(hs)
        /\ \A t \in 1..Len(hs) :
             sections[t].summary =
               JoinSpace(TextsAt(lines, MetInSummaryMode(lines, hs[t])))

\* C11 amended: when the parse is done, the summary of every topic is the
\* plain-text lines met while the cursor of that topic is in summary mode,
\* other than a line taken as the overview text (the first non-empty line
\* without bold prefix after a '## Meeting Overview' marker), each trimmed,
\* in document order, joined by single spaces; bullets, subsection markers
\* and '**Speakers:**' lines met in summary mode are not in it.
C11_SummaryJoinButOverview ==
  pc = "done" =>
    LET hs == OpeningPositions(lines)
    IN  /\ Len(sections) = Len(hs)
        /\ \A t \in 1..Len(hs) :
             sections[t].summary =
               JoinSpace(TextsAt(lines,
                 {k \in MetInSummaryMode(lines, hs[t]) : ~FirstAfterMarker(lines, k)}))

\* C11 witness: '## 1. Zoning', '### Summary', 'Budget talk',
\* '## Meeting Overview', '  Vote passed  ': both text lines are met in
\* summary mode, the summary is 'Budget talk' and the overview is
\* 'Vote passed'.
C11_Witness ==
  /\ pc = "done"
  /\ lines = <<LnTopic1, LnSummary, LnText, LnOverview, LnTextPadded>>
  /\ MetInSummaryMode(lines, 1) = {3, 5}
  /\ Len(sections) = 1
  /\ sections[1].summary = StrBudgetTalk
  /\ overviewText = StrVotePassed

(* ---------------------------------------------------------------------- *)
(* extractCBNumber: properties                                            *)
(* ---------------------------------------------------------------------- *)

Returned == xpc = "returned"

\* The phrases of VocabPatterns that a pattern matches: the place of the
\* pattern in the list, and the digits it captures.
PatternPhrases ==
  { [phrase |-> PhCB7,             rank |-> 1, digits |-> <<"7">>],
    [phrase |-> PhCommunityBoard3, rank |-> 3, digits |-> <<"3">>],
    [phrase |-> PhBoard9,          rank |-> 5, digits |-> <<"9">>],
    [phrase |-> PhDistrict75,      rank |-> 6, digits |-> <<"7", "5">>] }

\* C12: the six patterns are tried in list order and the digits captured by
\* the first pattern of the list that matches anywhere in the title are
\* returned, wherever in the title each pattern matches and whatever the
\* bare-number rule or the neighbourhood lookup would give.
C12_PatternPrecedence ==
  Returned =>
    LET matched == {r \in PatternPhrases : includes(title, r.phrase)}
    IN  matched # {} =>
          \E r \in matched :
            /\ \A q \in matched : r.rank <= q.rank
            /\ cbNumber = r.digits

\* A Board match in front of a CB match, in a title with a bare number and
\* the word 'board': the CB pattern wins.
C12_Witness ==
  /\ Returned
  /\ title = JoinPhrases(<<PhBoard9, PhCB7, PhMarch12>>)
  /\ cbNumber = <<"7">>

\* The identifiers of the boards, 1 to 12.
ValidBoardNumbers ==
  {<<"1">>, <<"2">>, <<"3">>, <<"4">>, <<"5">>, <<"6">>, <<"7">>, <<"8">>, <<"9">>, <<"1", "0">>, <<"1", "1">>,
   <<"1", "2">>}

\* The values that stand for 'no board number'.
AbsenceMarkers == {EmptyString, <<"?">>}

\* C13: the value returned is an absence marker or an integer between 1
\* and 12.
C13_ResultInRange ==
  Returned => cbNumber \in ValidBoardNumbers \cup AbsenceMarkers

\* A title of VocabNumber that no rule matches: it names no neighbourhood,
\* and has no standalone number in 1..12 together with the word 'board'.
NoRuleMatches(s) ==
  /\ ~includes(s, PhHarlem)
  /\ ~(includes(s, PhFullBoardMeeting) /\ (includes(s, PhMarch12) \/ includes(s, Ph7pm)))

\* C14: a title that no pattern, no bare number and no neighbourhood name
\* matches makes the extractor return the empty result, and on the way
\* there the extractor never reads past the end of its two tables.
C14_UnknownIsAValue ==
  /\ Returned /\ NoRuleMatches(title) => cbNumber = EmptyString
  /\ xpc = "patterns" => xi \in DOMAIN patterns
  /\ xpc = "names" => xi \in 1..(Len(cbNames) + 1)

C14_Witness ==
  /\ Returned
  /\ title = PhTownHall
  /\ cbNumber = EmptyString

\* C15: a title that matches no numeric rule and contains a neighbourhood
\* name of the table (and no other name than parts of that one) gets the
\* number the table maps the name to.
C15_NeighborhoodLookup ==
  Returned =>
    \A k \in DOMAIN cbNames :
      ( /\ cbNames[k].number \in ValidBoardNumbers
        /\ includes(toLowerCase(title), cbNames[k].area)
        /\ \A j \in DOMAIN cbNames :
             includes(toLowerCase(title), cbNames[j].area)
               => includes(cbNames[k].area, cbNames[j].area) )
      => cbNumber = cbNames[k].number

\* The number of the first 'March 12' or '7 pm' of a title of VocabNumber.
FirstBareNumber(s) ==
  LET twelve == Occurrences(s, PhMarch12)
      seven  == Occurrences(s, Ph7pm)
  IN  IF MinOf(twelve \cup seven) \in twelve THEN <<"1", "2">> ELSE <<"7">>

HasBareNumber(s) == includes(s, PhMarch12) \/ includes(s, Ph7pm)

\* C16: with no pattern matching, a title that contains 'board' and a
\* standalone number in 1..12 gets the first such number; a title without
\* 'board' never gets a bare number, and a number outside 1..12 or one
\* that is part of a word is never returned.
C16_BareNumberRule ==
  Returned =>
    /\ includes(title, PhFullBoardMeeting) /\ HasBareNumber(title)
         => cbNumber = FirstBareNumber(title)
    /\ ~(includes(title, PhFullBoardMeeting) /\ HasBareNumber(title))
         => cbNumber = IF includes(title, PhHarlem) THEN <<"9">> ELSE EmptyString

\* '13' is passed over for the later '12'.
C16_Witness ==
  /\ Returned
  /\ title = JoinPhrases(<<PhRoom13, PhFullBoardMeeting, PhMarch12>>)
  /\ cbNumber = <<"1", "2">>

(* ---------------------------------------------------------------------- *)
(* Generated documents: properties                                        *)
(* ---------------------------------------------------------------------- *)

\* C17: parsing the document generated for an analysis gives the summary,
\* sentiment and attendance of the analysis as overview, overall sentiment
\* and attendance, whatever lists the analysis holds.
C17_GeneratedRoundTrip ==
  pc = "done" /\ analysis # NULL =>
    /\ overviewText = analysis.summary
    /\ sentiment = analysis.sentiment
    /\ attendance = analysis.attendance

\* The readings of 'the text trailing the header phrase' for the title line
\* of a generated document.
TrailingTexts(line) ==
  { trim(substring(line, Len(<<"#", " ", "C", "o", "m", "m", "u", "n", "i", "t", "y", " ", "B", "o", "a", "r", "d", " ", "M", "e", "e", "t", "i", "n", "g">>))),
    trim(substring(line, Len(<<"#", " ", "C", "o", "m", "m", "u", "n", "i", "t", "y", " ", "B", "o", "a", "r", "d", " ", "M", "e", "e", "t", "i", "n", "g", ",">>))),
    trim(substring(line, Len(<<"#", " ", "C", "o", "m", "m", "u", "n", "i", "t", "y", " ", "B", "o", "a", "r", "d", " ", "M", "e", "e", "t", "i", "n", "g", ",", " ", "A", "n", "a", "l", "y", "z", "e", "d", " ", "o", "n", ":">>))) }

\* C18: the title line of a generated document gives its trailing date
\* text as the meeting date.
C18_GeneratedTitleDate ==
  pc = "done" /\ analysis # NULL => date \in TrailingTexts(lines[1])

(* ---------------------------------------------------------------------- *)
(* The split-based renderer: properties                                   *)
(* ---------------------------------------------------------------------- *)

\* The titles of the sections the split-based renderer renders, in order.
RenderedTitles ==
  [k \in 1..Len(parsedSections.rendered) |-> parsedSections.rendered[k].title]

\* C20: the sections the split-based renderer renders are exactly the
\* numbered topics of the document, in order; the text before the first
\* '## ' and the 'Meeting Overview' section are not among them.
C20_SplitSectionsAreTopics ==
  parsedSections # NULL => RenderedTitles = HeaderTitles(lines)

(* ---------------------------------------------------------------------- *)
(* App (src/src/App.tsx): properties                                      *)
(* ---------------------------------------------------------------------- *)

\* C21: at most one processing request awaits its response at any time,
\* and isProcessing is true whenever one does.
C21_OneRequestInFlight ==
  /\ Len(requests) <= 1
  /\ requests # <<>> => isProcessing

\* C22: when the response to a processing request is ok, the results view
\* shows its result afterwards, whatever the user did in the meantime.
C22_ResultIsDisplayed ==
  [][\A k \in DOMAIN requests : \A result \in Results :
       ProcessingSucceeded(k, result)
         => /\ analysis' # NULL
            /\ analysis'.title = result.title
            /\ ViewOf(analysis', currentView', selectedCB') = "results"]_vars

\* The board numbers, 1 to 12.
BoardNumbers == 1..12

\* C24: selectedCB is null or a board number in 1..12 in every reachable
\* state.
C24_SelectedBoardInRange == selectedCB \in BoardNumbers \cup {NoNumber}

\* C26: a click on the enabled start button sends exactly one request and
\* alerts no error.
C26_EnabledStartSends ==
  [][processVideo
       => /\ Len(requests') = Len(requests) + 1
          /\ alertMessage' = ""]_vars

\* C27: selecting a meeting whose analysis is a string that is not valid
\* JSON leaves analysis and currentView as they were.
C27_BadJsonAbsorbed ==
  [][\A meeting \in Meetings :
       ( /\ meeting.analysis.type = "string"
         /\ JSONparse(meeting.analysis.text).thrown
         /\ handleSelectMeeting(meeting) )
       => UNCHANGED <<analysis, currentView>>]_vars

(* ---------------------------------------------------------------------- *)
(* MeetingList: properties                                                *)
(* ---------------------------------------------------------------------- *)

\* C23: once no fetch awaits its response (and none has failed), the
\* meetings shown are those of the board selected now.
C23_MeetingsOfSelectedBoard ==
  fetches = <<>> /\ error = NoError =>
    \A k \in DOMAIN meetings : meetings[k].cb_number = selectedCB

\* C28: the response of an auto-refresh fetch never changes loading, and
\* when the fetch fails or the backend is temporarily unavailable while
\* meetings is non-empty, meetings and error stay as they are.
C28_AutoRefreshKeepsMeetings ==
  [][\A k \in DOMAIN fetches :
       fetches[k].auto =>
         /\ (FetchFailed(k) \/ FetchUnavailable(k)
               \/ \E data \in MeetingsData(fetches[k].cb) : FetchSucceeded(k, data))
              => loading' = loading
         /\ (FetchFailed(k) \/ FetchUnavailable(k)) /\ meetings # <<>>
              => meetings' = meetings /\ error' = error]_vars

\* C25: in the App of part_003, 'Back to CB{n} Meetings' leaves analysis
\* null, currentView 'meetings' and selectedCB equal to the n of the button,
\* the cb_number of the analysis shown.
C25_BackLeadsToBoard ==
  [][BackToMeetings003 =>
       /\ analysis' = NULL
       /\ currentView' = "meetings"
       /\ selectedCB' = analysis.cb_number]_vars

\* C29: in the pipeline of part_000 the steps are extract, transcribe,
\* analyze, complete; a step that is no longer pending has only completed
\* steps before it, so at most one step is processing; a step goes from
\* pending to processing to completed and never back during a run; and
\* analysis is non-null only when all four steps are completed.
C29_PipelineOrder ==
  /\ [](/\ steps # <<>> => Len(steps) = Len(initialSteps)
        /\ \A j \in DOMAIN steps :
             /\ steps[j].id = initialSteps[j].id
             /\ steps[j].status \in {"pending", "processing", "completed"}
             /\ steps[j].status # "pending" =>
                  \A h \in 1..(j - 1) : steps[h].status = "completed"
        /\ Cardinality({j \in DOMAIN steps : steps[j].status = "processing"}) <= 1
        /\ analysis # NULL =>
             /\ Len(steps) = Len(initialSteps)
             /\ \A j \in DOMAIN steps : steps[j].status = "completed")
  /\ [][\A j \in DOMAIN steps \cap DOMAIN steps' :
          \/ steps'[j].status = steps[j].status
          \/ steps[j].status = "pending" /\ steps'[j].status = "processing"
          \/ steps[j].status = "processing" /\ steps'[j].status = "completed"]_vars

\* The third step is running after the first two.
C29_Witness ==
  /\ isProcessing
  /\ Len(steps) = Len(initialSteps)
  /\ steps[1].status = "completed"
  /\ steps[2].status = "completed"
  /\ steps[3].status = "processing"
  /\ steps[4].status = "pending"

\* The number of the topic a line belongs to: the topic headers up to it.
TopicOfLine(k) ==
  Cardinality({h \in 1..k : TopicHeaderMatch(trim(lines[h])) > 0})

\* The line is a bullet under the '### Action Items' of its topic: the last
\* subsection marker before it, after the header of the topic, is that one.
ActionItemBullet(k) ==
  /\ startsWith(trim(lines[k]), BulletMark)
  /\ TopicOfLine(k) > 0
  /\ \E a \in 1..(k - 1) :
       /\ trim(lines[a]) = ActionItemsMarker
       /\ TopicOfLine(a) = TopicOfLine(k)
       /\ \A h \in (a + 1)..(k - 1) :
            trim(lines[h]) \notin {SummaryMarker, DecisionsMarker, ActionItemsMarker}

\* C30: once the line scanner is done, every topic has as many action
\* items as there are bullet lines under its '### Action Items': no bullet
\* is consumed as the Owner or Due of the item before it.
C30_EveryBulletIsAnItem ==
  pc = "done" =>
    \A t \in DOMAIN sections :
      Len(sections[t].actionItems) =
        Cardinality({k \in DOMAIN lines : ActionItemBullet(k) /\ TopicOfLine(k) = t})

====
